---- MODULE Spec2Model ----
(***************************************************************************)
(* A model of the BDMP archive engine (src/core.py): the Document tree     *)
(* (Item, Section, Data), the Resource Index (Info) and the archive handle *)
(* (BDMFile) with its staging directory and its save / rollback protocol.  *)
(*                                                                         *)
(* Conventions                                                             *)
(*   - a Python dict is a sequence of <<key, value>> pairs in insertion    *)
(*     order; a dynamic Python value is a tagged record [t |-> .., v |-> ..]*)
(*   - a path-like string is the sequence of its "/"-separated components  *)
(*   - an operation returns a record whose field exc names the exception   *)
(*     it raised ("none" when it returned normally)                        *)
(*   - the filesystem follows POSIX: rename replaces, an open file can be  *)
(*     unlinked                                                            *)
(***************************************************************************)
EXTENDS Integers, Sequences, FiniteSets, TLC

VARIABLES
    fs,     \* archive directory: path -> NoFile | raw file | zip container
    tmp,    \* TEMPDIR: staging root name -> (relative path -> bytes)
    hs,     \* the BDMFile objects: handle name -> object (or NoHandle)
    uuid,   \* number of uuid1() tokens drawn so far
    sv,     \* the frame of the save call in progress (pc = "idle" when none)
    last,   \* descriptor and outcome of the operation performed last
    px,     \* payload handed to Data.import_data / Info.import_data
    rt      \* history of the add_file / save / close / reopen cycle

vars == <<fs, tmp, hs, uuid, sv, last, px, rt>>

-----------------------------------------------------------------------------
(* Bounds of the model and constants of the program *)

VERSION == 2

MaxUuid == 4

MaxVersionTag == 3

-----------------------------------------------------------------------------
(* Python values *)

None == [t |-> "None"]

PyStr(s) == [t |-> "str", v |-> s]

PyInt(n) == [t |-> "int", v |-> n]

PyDict(d) == [t |-> "dict", v |-> d]

IsDict(x) == x.t = "dict"

(* dict: a sequence of <<key, value>>, keys unique, insertion order kept *)
DictKeys(d) == [i \in 1..Len(d) |-> d[i][1]]

DictHas(d, k) == \E i \in 1..Len(d) : d[i][1] = k

DictGet(d, k) == d[CHOOSE i \in 1..Len(d) : d[i][1] = k][2]

DictSet(d, k, v) ==
    IF DictHas(d, k)
    THEN [i \in 1..Len(d) |-> IF d[i][1] = k THEN <<k, v>> ELSE d[i]]
    ELSE Append(d, <<k, v>>)

DictDel(d, k) == SelectSeq(d, LAMBDA e : e[1] # k)

DictUnique(d) == \A i, j \in 1..Len(d) : d[i][1] = d[j][1] => i = j

-----------------------------------------------------------------------------
(* Paths *)

(* pathlib.Path(s): "." and empty components are dropped *)
PathOf(s) == SelectSeq(s, LAMBDA c : c # "." /\ c # "")

(* str(Path): the normalised components, "." for the empty path *)
PathStr(p) == IF p = <<>> THEN <<".">> ELSE p

(* the archive member name f"files/{file}" *)
ArcName(file) == <<"files">> \o file

(* ZipFile.write normalises the archive name it is given (os.path.normpath, *)
(* separators of an absolute part stripped)                                 *)
ZipArcName(arcname) == SelectSeq(PathOf(arcname), LAMBDA c : c # "/")

(* an absolute path: its first component is the root "/" *)
IsAbs(p) == Len(p) > 0 /\ p[1] = "/"

(* path.parent / (path.name + ".old") *)
OldOf(path) == path \o ".old"

-----------------------------------------------------------------------------
(* Outcomes of an operation *)

Ok(v) == [exc |-> "none", args |-> <<>>, val |-> v]

Raise(e, a) == [exc |-> e, args |-> a, val |-> None]

-----------------------------------------------------------------------------
(* Item, Section, Data, Info: construction *)

(* the Ownership Link every node keeps: HierarchizedObject.__init__(parent) *)
HierarchizedObject(parent) == parent

(* self.image_id = image_id if image_id is not None else image *)
ItemImageId(image_id, image) == IF image_id # None THEN image_id ELSE image

(* Item.__init__ *)
Item(parent, title, content, level, data, image_id, image) ==
    IF image_id = None /\ image = None
    THEN Raise("ValueError", <<"image_id or image must be provided">>)
    ELSE Ok([parent   |-> HierarchizedObject(parent),
             title    |-> title,
             content  |-> content,
             image_id |-> ItemImageId(image_id, image),
             level    |-> level,
             data     |-> data])

ItemRequired == {"title", "content", "level"}

ItemAccepted == {"title", "content", "level", "data", "image_id", "image"}

KwGet(d, k) == IF DictHas(d, k) THEN DictGet(d, k) ELSE None

(* Item(parent, **item): the call made for every item of a loaded section *)
ItemKw(parent, d) ==
    IF \/ \E k \in ItemRequired : ~DictHas(d, k)
       \/ \E i \in 1..Len(d) : d[i][1] \notin ItemAccepted
    THEN Raise("TypeError", <<"Item.__init__">>)
    ELSE Item(parent, DictGet(d, "title"), DictGet(d, "content"), DictGet(d, "level"),
              KwGet(d, "data"), KwGet(d, "image_id"), KwGet(d, "image"))

(* the loop of Section.__init__ over content: the first failing Item aborts *)
SectionItems(parent, content) ==
    LET built == [i \in 1..Len(content) |-> ItemKw(parent, content[i][2].v)]
    IN  IF \E i \in 1..Len(content) : built[i].exc # "none"
        THEN built[CHOOSE i \in 1..Len(content) :
                     /\ built[i].exc # "none"
                     /\ \A j \in 1..(i - 1) : built[j].exc = "none"]
        ELSE Ok([i \in 1..Len(content) |-> <<content[i][1], built[i].val>>])

(* Section.__init__; a later duplicate key cannot occur, content being a dict *)
Section(parent, type, description, content) ==
    LET items == SectionItems(parent, content)
    IN  IF items.exc # "none" THEN items
        ELSE Ok([parent      |-> HierarchizedObject(parent),
                 type        |-> type,
                 description |-> description,
                 content     |-> items.val])

SectionAccepted == {"type", "description", "content"}

(* Section(parent, **section) *)
SectionKw(parent, d) ==
    IF \/ \E k \in SectionAccepted : ~DictHas(d, k)
       \/ \E i \in 1..Len(d) : d[i][1] \notin SectionAccepted
    THEN Raise("TypeError", <<"Section.__init__">>)
    ELSE Section(parent, DictGet(d, "type"), DictGet(d, "description"),
                 DictGet(d, "content").v)

(* Data.__init__ *)
Data(parent, sections) ==
    LET built == [i \in 1..Len(sections) |-> SectionKw(parent, sections[i][2].v)]
    IN  IF \E i \in 1..Len(sections) : built[i].exc # "none"
        THEN built[CHOOSE i \in 1..Len(sections) :
                     /\ built[i].exc # "none"
                     /\ \A j \in 1..(i - 1) : built[j].exc = "none"]
        ELSE Ok([parent   |-> HierarchizedObject(parent),
                 sections |-> [i \in 1..Len(sections) |->
                                 <<sections[i][1], built[i].val>>]])

(* Info.__init__: every internal name becomes a Path *)
Info(parent, name, files) ==
    Ok([parent |-> HierarchizedObject(parent),
        name   |-> name,
        files  |-> [i \in 1..Len(files) |-> <<files[i][1], PathOf(files[i][2])>>]])

DataDefaultSections == <<>>

InfoDefaultName == "NoName"

InfoDefaultFiles == <<>>

-----------------------------------------------------------------------------
(* Serialization: to_dict / export_data / import_data *)

(* the structured-value codec (pickle): an opaque wrapper around the value *)
pickle_dumps(x) == [pickle |-> x]

pickle_loads(b) == b.pickle

(* Item.to_dict *)
ItemToDict(item) ==
    LET base == << <<"title", item.title>>, <<"content", item.content>>,
                   <<"image_id", item.image_id>>, <<"level", item.level>> >>
    IN  IF item.data # None THEN Append(base, <<"data", item.data>>) ELSE base

(* Section.to_dict *)
SectionToDict(sec) ==
    << <<"type", sec.type>>,
       <<"description", sec.description>>,
       <<"content", PyDict([i \in 1..Len(sec.content) |->
                       <<sec.content[i][1], PyDict(ItemToDict(sec.content[i][2]))>>])>> >>

(* Data.export_data *)
DataExport(data) ==
    pickle_dumps(PyDict(
        << <<"version", PyInt(VERSION)>>,
           <<"sections", PyDict([i \in 1..Len(data.sections) |->
                 <<data.sections[i][1], PyDict(SectionToDict(data.sections[i][2]))>>])>> >>))

(* Info.export_data: str() of every internal name *)
InfoExport(info) ==
    pickle_dumps(PyDict(
        << <<"version", PyInt(VERSION)>>,
           <<"files", PyDict([i \in 1..Len(info.files) |->
                 <<info.files[i][1], PyStr(PathStr(info.files[i][2]))>>])>>,
           <<"name", PyStr(info.name)>> >>))

VersionRejectedGeq(found) == found >= VERSION

(* the version gate of both import_data: data["version"] > VERSION *)
VersionRejected(found) == found > VERSION

(* Data.import_data *)
DataImport(payload, parent, path) ==
    LET data == pickle_loads(payload)
    IN  IF ~IsDict(data) THEN Raise("InvalidFile", <<path, "Invalid 'data' file">>)
        ELSE IF ~DictHas(data.v, "version") THEN Raise("KeyError", <<"version">>)
        ELSE IF DictGet(data.v, "version").t # "int" THEN Raise("TypeError", <<"version">>)
        ELSE IF VersionRejected(DictGet(data.v, "version").v)
             THEN Raise("VersionError", <<VERSION, DictGet(data.v, "version").v, path>>)
        ELSE IF ~DictHas(data.v, "sections") THEN Raise("KeyError", <<"sections">>)
        ELSE IF ~IsDict(DictGet(data.v, "sections")) THEN Raise("TypeError", <<"sections">>)
        ELSE Data(parent, DictGet(data.v, "sections").v)

(* Info.import_data *)
InfoImport(payload, parent, path) ==
    LET data == pickle_loads(payload)
    IN  IF ~IsDict(data) THEN Raise("InvalidFile", <<path, "Invalid 'info' file">>)
        ELSE IF ~DictHas(data.v, "version") THEN Raise("KeyError", <<"version">>)
        ELSE IF DictGet(data.v, "version").t # "int" THEN Raise("TypeError", <<"version">>)
        ELSE IF VersionRejected(DictGet(data.v, "version").v)
             THEN Raise("VersionError", <<VERSION, DictGet(data.v, "version").v, path>>)
        ELSE IF ~DictHas(data.v, "name") THEN Raise("KeyError", <<"name">>)
        ELSE IF ~DictHas(data.v, "files") THEN Raise("KeyError", <<"files">>)
        ELSE IF ~IsDict(DictGet(data.v, "files")) THEN Raise("TypeError", <<"files">>)
        ELSE Info(parent, DictGet(data.v, "name").v,
                  [i \in 1..Len(DictGet(data.v, "files").v) |->
                      <<DictGet(data.v, "files").v[i][1],
                        DictGet(data.v, "files").v[i][2].v>>])

-----------------------------------------------------------------------------
(* The filesystem and the container format (zipfile) *)

NoFile == [kind |-> "absent"]

(* ZipFile(path, "w"): a truncated file, its central directory not written *)
(* a file that is no zip container: what Path.write_bytes leaves *)
RawFile(data) == [kind |-> "raw", data |-> data]

NewZip == [kind |-> "zip", closed |-> FALSE, entries |-> <<>>]

Bytes(b) == [bytes |-> b]

Exists(path) == fs[path] # NoFile

(* zipfile.is_zipfile: the end-of-central-directory record is present *)
is_zipfile(f) == f.kind = "zip" /\ f.closed

namelist(f) == DictKeys(f.entries)

(* ZipFile.read(name): the last member written under that name *)
ZipRead(f, name) ==
    f.entries[CHOOSE i \in 1..Len(f.entries) :
                /\ f.entries[i][1] = name
                /\ \A j \in (i + 1)..Len(f.entries) : f.entries[j][1] # name][2]

ZipHas(f, name) == \E i \in 1..Len(f.entries) : f.entries[i][1] = name

REQUIRED_CONTENT == << <<"info">>, <<"data">> >>

(* namelist.remove(content): the first occurrence of each required name *)
RemoveFirst(seq, x) ==
    LET i == CHOOSE k \in 1..Len(seq) :
                 seq[k] = x /\ \A j \in 1..(k - 1) : seq[j] # x
    IN  [k \in 1..(Len(seq) - 1) |-> IF k < i THEN seq[k] ELSE seq[k + 1]]

(* the members _extract_files leaves to extractall, as positions of entries *)
ExtractedNames(f) ==
    RemoveFirst(RemoveFirst(namelist(f), REQUIRED_CONTENT[1]), REQUIRED_CONTENT[2])

(* a directory tree: relative path -> content; extractall writes in order *)
RECURSIVE ExtractAll(_, _, _)
ExtractAll(dir, f, names) ==
    IF names = <<>> THEN dir
    ELSE ExtractAll([p \in DOMAIN dir \cup {Head(names)} |->
                        IF p = Head(names) THEN ZipRead(f, Head(names)) ELSE dir[p]],
                    f, Tail(names))

EmptyDir == [p \in {} |-> NoFile]

(* BDMFile._check_validity *)
CheckValidity(path) ==
    IF ~is_zipfile(fs[path]) THEN Raise("InvalidFile", <<path, "Not a zip file">>)
    ELSE IF ~ZipHas(fs[path], REQUIRED_CONTENT[1])
         THEN Raise("InvalidFile", <<path, "Missing 'info'">>)
    ELSE IF ~ZipHas(fs[path], REQUIRED_CONTENT[2])
         THEN Raise("InvalidFile", <<path, "Missing 'data'">>)
    ELSE Ok(None)

(* uuid1().hex of the k-th token drawn *)
UuidHex(k) == "u" \o ToString(k)

-----------------------------------------------------------------------------
(* BDMFile: the archive handle *)

Modes == {"w", "r", "r+"}

EmptyInfo(h) == Info(h, InfoDefaultName, InfoDefaultFiles).val

EmptyData(h) == Data(h, DataDefaultSections).val

(* a handle name not bound to an object *)
NoHandle ==
    [state |-> "none", path |-> "", mode |-> "", readable |-> FALSE,
     writable |-> FALSE, root |-> "", info |-> EmptyInfo(""), data |-> EmptyData(""),
     closed |-> FALSE]

(* self.readable = "r" in mode *)
Readable(mode) == mode \in {"r", "r+"}

(* self.writable = mode in ("w", "r+") *)
Writable(mode) == mode \in {"w", "r+"}

SetupTempEnvEmpty(path, root) == tmp @@ (root :> EmptyDir)

(* _setup_temp_env: a fresh root under TEMPDIR, the archived resources in it *)
SetupTempEnv(path, root) ==
    tmp @@ (root :> IF Exists(path)
                    THEN ExtractAll(EmptyDir, fs[path], ExtractedNames(fs[path]))
                    ELSE EmptyDir)

OpenOpStageFirst(h, path, mode) ==
    LET exists == Exists(path)
        valid  == IF exists THEN CheckValidity(path) ELSE Ok(None)
        root   == UuidHex(uuid + 1)
        tmp1   == IF Writable(mode) THEN SetupTempEnv(path, root) ELSE tmp
        uuid1  == IF Writable(mode) THEN uuid + 1 ELSE uuid
        early  == IF Writable(mode) THEN tmp @@ (root :> EmptyDir) ELSE tmp
        d      == DataImport(ZipRead(fs[path], <<"data">>), h, path)
        i      == InfoImport(ZipRead(fs[path], <<"info">>), h, path)
        obj(info, data) ==
            [state |-> "open", path |-> path, mode |-> mode,
             readable |-> Readable(mode), writable |-> Writable(mode),
             root |-> IF Writable(mode) THEN root ELSE "",
             info |-> info, data |-> data, closed |-> FALSE]
    IN  IF mode \notin Modes
        THEN [obj |-> NoHandle, tmp |-> tmp, uuid |-> uuid,
              res |-> Raise("ValueError", <<"Invalid or incompatible mode">>)]
        ELSE IF valid.exc # "none"
        THEN [obj |-> NoHandle, tmp |-> early, uuid |-> uuid1, res |-> valid]
        ELSE IF ~exists /\ mode = "r"
        THEN [obj |-> NoHandle, tmp |-> early, uuid |-> uuid1,
              res |-> Raise("FileNotFoundError", <<path>>)]
        ELSE IF ~exists
        THEN [obj |-> obj(EmptyInfo(h), EmptyData(h)), tmp |-> tmp1, uuid |-> uuid1,
              res |-> Ok(None)]
        ELSE IF d.exc # "none"
        THEN [obj |-> NoHandle, tmp |-> tmp1, uuid |-> uuid1, res |-> d]
        ELSE IF i.exc # "none"
        THEN [obj |-> NoHandle, tmp |-> tmp1, uuid |-> uuid1, res |-> i]
        ELSE [obj |-> obj(i.val, d.val), tmp |-> tmp1, uuid |-> uuid1, res |-> Ok(None)]

(* BDMFile.__init__; obj is NoHandle when the constructor raised *)
OpenOp(h, path, mode) ==
    LET exists == Exists(path)
        valid  == IF exists THEN CheckValidity(path) ELSE Ok(None)
        root   == UuidHex(uuid + 1)
        tmp1   == IF Writable(mode) THEN SetupTempEnv(path, root) ELSE tmp
        uuid1  == IF Writable(mode) THEN uuid + 1 ELSE uuid
        d      == DataImport(ZipRead(fs[path], <<"data">>), h, path)
        i      == InfoImport(ZipRead(fs[path], <<"info">>), h, path)
        obj(info, data) ==
            [state |-> "open", path |-> path, mode |-> mode,
             readable |-> Readable(mode), writable |-> Writable(mode),
             root |-> IF Writable(mode) THEN root ELSE "",
             info |-> info, data |-> data, closed |-> FALSE]
    IN  IF mode \notin Modes
        THEN [obj |-> NoHandle, tmp |-> tmp, uuid |-> uuid,
              res |-> Raise("ValueError", <<"Invalid or incompatible mode">>)]
        ELSE IF valid.exc # "none"
        THEN [obj |-> NoHandle, tmp |-> tmp, uuid |-> uuid, res |-> valid]
        ELSE IF ~exists /\ mode = "r"
        THEN [obj |-> NoHandle, tmp |-> tmp, uuid |-> uuid,
              res |-> Raise("FileNotFoundError", <<path>>)]
        ELSE IF ~exists
        THEN [obj |-> obj(EmptyInfo(h), EmptyData(h)), tmp |-> tmp1, uuid |-> uuid1,
              res |-> Ok(None)]
        ELSE IF d.exc # "none"
        THEN [obj |-> NoHandle, tmp |-> tmp1, uuid |-> uuid1, res |-> d]
        ELSE IF i.exc # "none"
        THEN [obj |-> NoHandle, tmp |-> tmp1, uuid |-> uuid1, res |-> i]
        ELSE [obj |-> obj(i.val, d.val), tmp |-> tmp1, uuid |-> uuid1, res |-> Ok(None)]

(* self._internal_files_dir / name *)
StagedPath(name) == <<"files">> \o PathOf(name)

(* Path.write_bytes under a staging root *)
WriteBytes(root, rel, data) ==
    IF root \notin DOMAIN tmp
    THEN [tmp |-> tmp, res |-> Raise("FileNotFoundError", <<root, rel>>)]
    ELSE IF rel = <<"files">>
    THEN [tmp |-> tmp, res |-> Raise("IsADirectoryError", <<root, rel>>)]
    ELSE IF /\ Len(rel) > 2
            /\ ~\E p \in DOMAIN tmp[root] :
                  Len(p) >= Len(rel) /\ SubSeq(p, 1, Len(rel) - 1) = SubSeq(rel, 1, Len(rel) - 1)
    THEN [tmp |-> tmp, res |-> Raise("FileNotFoundError", <<root, rel>>)]
    ELSE [tmp |-> [tmp EXCEPT ![root] =
                      [p \in DOMAIN tmp[root] \cup {rel} |->
                          IF p = rel THEN data ELSE tmp[root][p]]],
          res |-> Ok(None)]

(* self._internal_files_dir / name for an absolute name is that name: the   *)
(* write lands outside the staging root.  <<"/", p>> is the file p of the   *)
(* directory of the archives.                                               *)
WriteOutside(name, data) ==
    IF Len(name) = 2 /\ name[2] \in DOMAIN fs
    THEN [tmp |-> tmp, fs |-> [fs EXCEPT ![name[2]] = RawFile(data)], res |-> Ok(None)]
    ELSE [tmp |-> tmp, fs |-> fs, res |-> Raise("FileNotFoundError", <<name>>)]

(* the bytes of a file of the directory of the archives *)
FileBytes(f) == IF f.kind = "raw" THEN f.data ELSE [container |-> f]

(* (self._internal_files_dir / name).read_bytes() *)
StagedRead(root, name) ==
    IF IsAbs(name)
    THEN IF Len(name) = 2 /\ name[2] \in DOMAIN fs /\ Exists(name[2])
         THEN Ok(FileBytes(fs[name[2]]))
         ELSE Raise("FileNotFoundError", <<name>>)
    ELSE IF root \notin DOMAIN tmp \/ StagedPath(name) \notin DOMAIN tmp[root]
    THEN Raise("FileNotFoundError", <<root, StagedPath(name)>>)
    ELSE Ok(tmp[root][StagedPath(name)])

(* BDMFile.write_file *)
WriteFileOp(obj, file_id, data) ==
    IF ~obj.writable
    THEN [tmp |-> tmp, fs |-> fs, res |-> Raise("UnsupportedOperation", <<"Not writable">>)]
    ELSE IF ~DictHas(obj.info.files, file_id)
    THEN [tmp |-> tmp, fs |-> fs, res |-> Raise("KeyError", <<file_id>>)]
    ELSE IF IsAbs(DictGet(obj.info.files, file_id))
    THEN WriteOutside(DictGet(obj.info.files, file_id), data)
    ELSE LET w == WriteBytes(obj.root, StagedPath(DictGet(obj.info.files, file_id)), data)
         IN  [tmp |-> w.tmp, fs |-> fs, res |-> w.res]

(* ext of add_file: "." + path.name.split(".")[-1] when the name has a dot *)
Ext(nameparts) ==
    IF Len(nameparts) > 1 THEN "." \o nameparts[Len(nameparts)] ELSE ""

AddFileOpNoDupCheck(obj, src, file_id, internal_name) ==
    LET name == IF internal_name = None
                THEN << UuidHex(uuid + 1) \o Ext(src.name) >>
                ELSE internal_name.v
        obj1 == [obj EXCEPT !.info.files = DictSet(@, file_id, name)]
        w    == WriteFileOp(obj1, file_id, src.data)
    IN  IF ~src.exists
        THEN [obj |-> obj, tmp |-> tmp, fs |-> fs, uuid |-> uuid,
              res |-> Raise("FileNotFoundError", <<src.name>>)]
        ELSE IF ~obj.writable
        THEN [obj |-> obj, tmp |-> tmp, fs |-> fs, uuid |-> uuid,
              res |-> Raise("UnsupportedOperation", <<"Not writable">>)]
        ELSE [obj |-> obj1, tmp |-> w.tmp, fs |-> w.fs,
              uuid |-> IF internal_name = None THEN uuid + 1 ELSE uuid,
              res |-> w.res]

(* BDMFile.add_file *)
AddFileOp(obj, src, file_id, internal_name) ==
    LET name == IF internal_name = None
                THEN << UuidHex(uuid + 1) \o Ext(src.name) >>
                ELSE internal_name.v
        obj1 == [obj EXCEPT !.info.files = DictSet(@, file_id, name)]
        w    == WriteFileOp(obj1, file_id, src.data)
    IN  IF ~src.exists
        THEN [obj |-> obj, tmp |-> tmp, fs |-> fs, uuid |-> uuid,
              res |-> Raise("FileNotFoundError", <<src.name>>)]
        ELSE IF DictHas(obj.info.files, file_id)
        THEN [obj |-> obj, tmp |-> tmp, fs |-> fs, uuid |-> uuid,
              res |-> Raise("FileExistsError", <<file_id>>)]
        ELSE IF ~obj.writable
        THEN [obj |-> obj, tmp |-> tmp, fs |-> fs, uuid |-> uuid,
              res |-> Raise("UnsupportedOperation", <<"Not writable">>)]
        ELSE [obj |-> obj1, tmp |-> w.tmp, fs |-> w.fs,
              uuid |-> IF internal_name = None THEN uuid + 1 ELSE uuid,
              res |-> w.res]

ReadFileOpArchiveOnly(obj, file_id) ==
    IF obj.readable
    THEN IF ~Exists(obj.path) THEN Raise("FileNotFoundError", <<obj.path>>)
         ELSE IF ~is_zipfile(fs[obj.path]) THEN Raise("BadZipFile", <<obj.path>>)
         ELSE IF ~DictHas(obj.info.files, file_id) THEN Raise("KeyError", <<file_id>>)
         ELSE IF ~ZipHas(fs[obj.path], ArcName(PathStr(DictGet(obj.info.files, file_id))))
         THEN Raise("KeyError", <<file_id>>)
         ELSE Ok(ZipRead(fs[obj.path], ArcName(PathStr(DictGet(obj.info.files, file_id)))))
    ELSE Raise("UnsupportedOperation", <<"Not readable">>)

(* BDMFile.read_file *)
ReadFileOp(obj, file_id) ==
    IF obj.mode = "r+"
    THEN IF ~DictHas(obj.info.files, file_id) THEN Raise("KeyError", <<file_id>>)
         ELSE StagedRead(obj.root, DictGet(obj.info.files, file_id))
    ELSE IF obj.readable
    THEN IF ~Exists(obj.path) THEN Raise("FileNotFoundError", <<obj.path>>)
         ELSE IF ~is_zipfile(fs[obj.path]) THEN Raise("BadZipFile", <<obj.path>>)
         ELSE IF ~DictHas(obj.info.files, file_id) THEN Raise("KeyError", <<file_id>>)
         ELSE IF ~ZipHas(fs[obj.path], ArcName(PathStr(DictGet(obj.info.files, file_id))))
         THEN Raise("KeyError", <<file_id>>)
         ELSE Ok(ZipRead(fs[obj.path], ArcName(PathStr(DictGet(obj.info.files, file_id)))))
    ELSE Raise("UnsupportedOperation", <<"Not readable">>)

(* ZipFile(self.path).open(f"files/{name}"): the member of the archive *)
ArchiveRead(obj, file_id) ==
    IF ~Exists(obj.path) THEN Raise("FileNotFoundError", <<obj.path>>)
    ELSE IF ~is_zipfile(fs[obj.path]) THEN Raise("BadZipFile", <<obj.path>>)
    ELSE IF ~DictHas(obj.info.files, file_id) THEN Raise("KeyError", <<file_id>>)
    ELSE IF ~ZipHas(fs[obj.path], ArcName(PathStr(DictGet(obj.info.files, file_id))))
    THEN Raise("KeyError", <<file_id>>)
    ELSE Ok(ZipRead(fs[obj.path], ArcName(PathStr(DictGet(obj.info.files, file_id)))))

(* the file object open_file returns: its mode and the bytes it reads *)
Stream(mode, r) ==
    IF r.exc = "none" THEN Ok([io |-> mode, data |-> r.val]) ELSE r

(* BDMFile.open_file, mode "r" or "w"; "w" truncates the staged file *)
OpenFileOp(obj, file_id, mode) ==
    IF mode = "r" /\ ~obj.readable
    THEN [tmp |-> tmp, fs |-> fs, res |-> Raise("UnsupportedOperation", <<"Not readable">>)]
    ELSE IF ~obj.writable /\ mode \in {"w", "r+", "a"}
    THEN [tmp |-> tmp, fs |-> fs, res |-> Raise("UnsupportedOperation", <<"Not writable">>)]
    ELSE IF obj.writable
    THEN IF ~DictHas(obj.info.files, file_id)
         THEN [tmp |-> tmp, fs |-> fs, res |-> Raise("KeyError", <<file_id>>)]
         ELSE IF mode = "w"
         THEN LET w == WriteFileOp(obj, file_id, Bytes(""))
              IN  [tmp |-> w.tmp, fs |-> w.fs,
                   res |-> Stream(mode, IF w.res.exc = "none" THEN Ok(Bytes("")) ELSE w.res)]
         ELSE [tmp |-> tmp, fs |-> fs,
               res |-> Stream(mode, StagedRead(obj.root, DictGet(obj.info.files, file_id)))]
    ELSE [tmp |-> tmp, fs |-> fs, res |-> Stream(mode, ArchiveRead(obj, file_id))]

CloseOpKeep(obj) ==
    IF ~obj.writable THEN [tmp |-> tmp, res |-> Ok(None)]
    ELSE IF obj.root \notin DOMAIN tmp
    THEN [tmp |-> tmp, res |-> Raise("FileNotFoundError", <<obj.root>>)]
    ELSE [tmp |-> tmp, res |-> Ok(None)]

(* BDMFile.close: rmtree of the staging root of a writable handle *)
CloseOp(obj) ==
    IF ~obj.writable THEN [tmp |-> tmp, res |-> Ok(None)]
    ELSE IF obj.root \notin DOMAIN tmp
    THEN [tmp |-> tmp, res |-> Raise("FileNotFoundError", <<obj.root>>)]
    ELSE [tmp |-> [r \in DOMAIN tmp \ {obj.root} |-> tmp[r]], res |-> Ok(None)]

-----------------------------------------------------------------------------
(* Item, Section, Data: the mutating and reading methods.  self._parent is *)
(* a handle name; its flags are those of the object bound to that name.    *)

NotWritable == Raise("UnsupportedOperation", <<"Not writable">>)

NotReadable == Raise("UnsupportedOperation", <<"Not readable">>)

(* Item.add_data *)
ItemAddData(item, name, value) ==
    IF ~hs[item.parent].writable THEN [obj |-> item, res |-> NotWritable]
    ELSE IF item.data = None
    THEN [obj |-> [item EXCEPT !.data = PyDict(<< <<name, value>> >>)], res |-> Ok(None)]
    ELSE IF ~IsDict(item.data)
    THEN [obj |-> item, res |-> Raise("TypeError", <<"item assignment">>)]
    ELSE [obj |-> [item EXCEPT !.data = PyDict(DictSet(item.data.v, name, value))],
          res |-> Ok(None)]

(* Item.remove_data *)
ItemRemoveData(item, name) ==
    IF ~hs[item.parent].writable THEN [obj |-> item, res |-> NotWritable]
    ELSE IF ~IsDict(item.data)
    THEN [obj |-> item, res |-> Raise("TypeError", <<"not iterable">>)]
    ELSE IF ~DictHas(item.data.v, name)
    THEN [obj |-> item, res |-> Raise("ValueError", <<name>>)]
    ELSE [obj |-> [item EXCEPT !.data =
                      IF Len(DictDel(item.data.v, name)) = 0 THEN None
                      ELSE PyDict(DictDel(item.data.v, name))],
          res |-> Ok(None)]

SectionSetItemNoOwnerCheck(sec, key, value) ==
    IF ~hs[sec.parent].writable THEN [obj |-> sec, res |-> NotWritable]
    ELSE [obj |-> [sec EXCEPT !.content = DictSet(@, key, value)], res |-> Ok(None)]

(* Section.__setitem__ *)
SectionSetItem(sec, key, value) ==
    IF ~hs[sec.parent].writable THEN [obj |-> sec, res |-> NotWritable]
    ELSE IF value.parent # sec.parent
    THEN [obj |-> sec,
          res |-> Raise("InvalidParent", <<sec.parent, value.parent, hs[sec.parent].path>>)]
    ELSE [obj |-> [sec EXCEPT !.content = DictSet(@, key, value)], res |-> Ok(None)]

SectionDelItemUnchecked(sec, key) ==
    IF ~DictHas(sec.content, key)
    THEN [obj |-> sec, res |-> Raise("KeyError", <<key>>)]
    ELSE [obj |-> [sec EXCEPT !.content = DictDel(@, key)], res |-> Ok(None)]

(* Section.__delitem__ *)
SectionDelItem(sec, key) ==
    IF ~hs[sec.parent].writable THEN [obj |-> sec, res |-> NotWritable]
    ELSE IF ~DictHas(sec.content, key)
    THEN [obj |-> sec, res |-> Raise("KeyError", <<key>>)]
    ELSE [obj |-> [sec EXCEPT !.content = DictDel(@, key)], res |-> Ok(None)]

(* Section.__contains__ *)
SectionContains(sec, key) ==
    IF ~hs[sec.parent].readable THEN NotReadable
    ELSE Ok(DictHas(sec.content, key))

(* Section.__getitem__ *)
SectionGetItem(sec, key) ==
    IF ~hs[sec.parent].readable THEN NotReadable
    ELSE IF ~DictHas(sec.content, key) THEN Raise("KeyError", <<key>>)
    ELSE Ok(DictGet(sec.content, key))

(* Section.__len__ *)
SectionLen(sec) ==
    IF ~hs[sec.parent].readable THEN NotReadable ELSE Ok(Len(sec.content))

(* Section.__iter__: the keys in insertion order *)
SectionIter(sec) ==
    IF ~hs[sec.parent].readable THEN NotReadable ELSE Ok(DictKeys(sec.content))

(* Data.__getitem__ *)
DataGetItem(data, key) ==
    IF ~hs[data.parent].readable THEN NotReadable
    ELSE IF ~DictHas(data.sections, key) THEN Raise("KeyError", <<key>>)
    ELSE Ok(DictGet(data.sections, key))

(* Data.__contains__: no test of the readable flag *)
DataContains(data, key) == Ok(DictHas(data.sections, key))

(* Data.__iter__ *)
DataIter(data) ==
    IF ~hs[data.parent].readable THEN NotReadable ELSE Ok(DictKeys(data.sections))

(* for key in self: length += len(self[key]) *)
RECURSIVE SumLen(_)
SumLen(sections) ==
    IF sections = <<>> THEN 0
    ELSE Len(Head(sections)[2].content) + SumLen(Tail(sections))

(* Data.__len__: the items of all sections *)
DataLen(data) ==
    IF ~hs[data.parent].readable THEN NotReadable ELSE Ok(SumLen(data.sections))

(* Section.add_item: Item is called with image_id, level and data in the    *)
(* positions of its parameters level, data and image_id                    *)
SectionAddItem(sec, title, content, image_id, level, name, data) ==
    LET item == Item(sec.parent, title, content, image_id, level, data, None)
    IN  IF item.exc # "none" THEN [obj |-> sec, res |-> item]
        ELSE SectionSetItem(sec, name, item.val)

(* Section.remove_item *)
SectionRemoveItem(sec, name) ==
    LET c == SectionContains(sec, name)
    IN  IF c.exc # "none" THEN [obj |-> sec, res |-> c]
        ELSE IF ~c.val
        THEN [obj |-> sec, res |-> Raise("ValueError", <<name>>)]
        ELSE SectionDelItem(sec, name)

DataSetItemNoOwnerCheck(data, key, value) ==
    IF ~hs[data.parent].writable THEN [obj |-> data, res |-> NotWritable]
    ELSE [obj |-> [data EXCEPT !.sections = DictSet(@, key, value)], res |-> Ok(None)]

(* Data.__setitem__ *)
DataSetItem(data, key, value) ==
    IF ~hs[data.parent].writable THEN [obj |-> data, res |-> NotWritable]
    ELSE IF value.parent # data.parent
    THEN [obj |-> data,
          res |-> Raise("InvalidParent", <<data.parent, value.parent, hs[data.parent].path>>)]
    ELSE [obj |-> [data EXCEPT !.sections = DictSet(@, key, value)], res |-> Ok(None)]

(* Data.__delitem__ *)
DataDelItem(data, key) ==
    IF ~hs[data.parent].writable THEN [obj |-> data, res |-> NotWritable]
    ELSE IF ~DictHas(data.sections, key)
    THEN [obj |-> data, res |-> Raise("KeyError", <<key>>)]
    ELSE [obj |-> [data EXCEPT !.sections = DictDel(@, key)], res |-> Ok(None)]

(* Data.add_section *)
DataAddSection(data, name, type, description) ==
    LET sec == Section(data.parent, type, description, <<>>)
    IN  IF sec.exc # "none" THEN [obj |-> data, res |-> sec]
        ELSE DataSetItem(data, name, sec.val)

-----------------------------------------------------------------------------
(* Descriptors of operations, the save frame, the round-trip history *)

Last(op, h, a, res) ==
    [op |-> op, h |-> h, a |-> a, exc |-> res.exc, eargs |-> res.args, val |-> res.val,
     pre |-> NoFile, fault |-> "none"]

NoOp == Last("none", "", <<>>, Ok(None))

(* a step of save that has not returned yet *)
Pending == [exc |-> "pending", args |-> <<>>, val |-> None]

IdleFrame ==
    [pc |-> "idle", h |-> "", path |-> "", old |-> "", i |-> 0,
     pre |-> NoFile, err |-> Ok(None), fault |-> "none"]

NoTrail == [stage |-> 0, h |-> "", path |-> "", id |-> "", data |-> Bytes("")]

(* the history add_file ; save ; close ; open of one external id: stage 1   *)
(* right after a successful add_file, 2 after the save that follows it,     *)
(* 3 after the close, 4 after the archive was opened again for reading.     *)
(* Reads leave the history as it is, every other operation ends it.         *)
RtStep(r, l) ==
    IF l.exc = "pending" \/ l.op = "read_file" THEN r
    ELSE IF l.op = "add_file" /\ l.exc = "none"
    THEN [stage |-> 1, h |-> l.h, path |-> l.a.path, id |-> l.a.id, data |-> l.a.data]
    ELSE IF r.stage = 1 /\ l.op = "save" /\ l.exc = "none" /\ l.h = r.h /\ l.a.path = r.path
    THEN [r EXCEPT !.stage = 2]
    ELSE IF r.stage = 2 /\ l.op = "close" /\ l.exc = "none" /\ l.h = r.h
    THEN [r EXCEPT !.stage = 3]
    ELSE IF /\ r.stage = 3 /\ l.op = "open" /\ l.exc = "none"
            /\ l.a.path = r.path /\ l.a.mode \in {"r", "r+"}
    THEN [r EXCEPT !.stage = 4, !.h = l.h]
    ELSE NoTrail

Done(l) == last' = l /\ rt' = RtStep(rt, l)

-----------------------------------------------------------------------------
(* BDMFile.save, one action per filesystem step *)

IoError(what) == Raise("OSError", <<what>>)

(* path.rename(path.parent / (path.name + ".old")) *)
RenameAside(path) == [fs EXCEPT ![OldOf(path)] = fs[path], ![path] = NoFile]

(* the handler's first statement: if path.exists(): remove(path) *)
UnlinkTarget(path) == IF Exists(path) THEN [fs EXCEPT ![path] = NoFile] ELSE fs

RestoreOldSkip(path, old) == fs

(* the handler's second statement: if old_file is not None: old_file.rename(path) *)
RestoreOld(path, old) ==
    IF old # "" THEN [fs EXCEPT ![path] = fs[old], ![old] = NoFile] ELSE fs

(* zip_file.writestr / zip_file.write: one more member *)
ZipAppend(f, name, content) == [f EXCEPT !.entries = Append(@, <<name, content>>)]

(* the close of zip_file when the frame of save is left: the central        *)
(* directory is written                                                     *)
ZipFinalize(f) == [f EXCEPT !.closed = TRUE]

AfterPayloads(h, old) ==
    IF Len(hs[h].info.files) > 0 THEN "files" ELSE IF old # "" THEN "rmold" ELSE "return"

Fail(e) == [sv EXCEPT !.pc = "except", !.err = e, !.fault = e.exc]

SaveBegin(h, target) ==
    /\ sv.pc = "idle" /\ hs[h].state = "open"
    /\ LET path == IF target = None THEN hs[h].path ELSE target.v
           a    == [path |-> path, target |-> target]
       IN  IF ~hs[h].writable
           THEN /\ Done(Last("save", h, a, NotWritable))
                /\ UNCHANGED <<fs, sv>>
           ELSE IF target.t = "str"
           THEN /\ Done(Last("save", h, a, Raise("AttributeError", <<"exists">>)))
                /\ UNCHANGED <<fs, sv>>
           ELSE /\ fs' = IF Exists(path) THEN RenameAside(path) ELSE fs
                /\ sv' = [pc |-> "create", h |-> h, path |-> path,
                          old |-> IF Exists(path) THEN OldOf(path) ELSE "",
                          i |-> 1, pre |-> fs[path], err |-> Ok(None), fault |-> "none"]
                /\ Done(Last("save", h, a, Pending))
    /\ UNCHANGED <<tmp, hs, uuid, px>>

SaveStepLast == Last("save", sv.h, [path |-> sv.path, target |-> None], Pending)

SaveCreate(fault) ==
    /\ sv.pc = "create"
    /\ IF fault
       THEN sv' = Fail(IoError("create")) /\ fs' = fs
       ELSE sv' = [sv EXCEPT !.pc = "data"] /\ fs' = [fs EXCEPT ![sv.path] = NewZip]
    /\ Done(SaveStepLast)
    /\ UNCHANGED <<tmp, hs, uuid, px>>

SaveWriteData(fault) ==
    /\ sv.pc = "data"
    /\ IF fault
       THEN sv' = Fail(IoError("data")) /\ fs' = fs
       ELSE /\ sv' = [sv EXCEPT !.pc = "info"]
            /\ fs' = [fs EXCEPT ![sv.path] = ZipAppend(@, <<"data">>, DataExport(hs[sv.h].data))]
    /\ Done(SaveStepLast)
    /\ UNCHANGED <<tmp, hs, uuid, px>>

SaveWriteInfo(fault) ==
    /\ sv.pc = "info"
    /\ IF fault
       THEN sv' = Fail(IoError("info")) /\ fs' = fs
       ELSE /\ sv' = [sv EXCEPT !.pc = AfterPayloads(sv.h, sv.old)]
            /\ fs' = [fs EXCEPT ![sv.path] = ZipAppend(@, <<"info">>, InfoExport(hs[sv.h].info))]
    /\ Done(SaveStepLast)
    /\ UNCHANGED <<tmp, hs, uuid, px>>

SaveWriteFile(fault) ==
    /\ sv.pc = "files"
    /\ LET file   == hs[sv.h].info.files[sv.i][2]
           staged == StagedRead(hs[sv.h].root, file)
       IN  IF fault
           THEN sv' = Fail(IoError("files")) /\ fs' = fs
           ELSE IF staged.exc # "none"
           THEN sv' = Fail(staged) /\ fs' = fs
           ELSE /\ sv' = [sv EXCEPT !.i = @ + 1,
                                    !.pc = IF sv.i < Len(hs[sv.h].info.files) THEN "files"
                                           ELSE IF sv.old # "" THEN "rmold" ELSE "return"]
                /\ fs' = [fs EXCEPT ![sv.path] =
                             ZipAppend(@, ZipArcName(ArcName(PathStr(file))), staged.val)]
    /\ Done(SaveStepLast)
    /\ UNCHANGED <<tmp, hs, uuid, px>>

SaveRemoveOld(fault) ==
    /\ sv.pc = "rmold"
    /\ IF fault
       THEN sv' = Fail(IoError("remove")) /\ fs' = fs
       ELSE sv' = [sv EXCEPT !.pc = "return"] /\ fs' = [fs EXCEPT ![sv.old] = NoFile]
    /\ Done(SaveStepLast)
    /\ UNCHANGED <<tmp, hs, uuid, px>>

SaveReturn ==
    /\ sv.pc = "return"
    /\ fs' = [fs EXCEPT ![sv.path] = ZipFinalize(@)]
    /\ sv' = IdleFrame
    /\ Done([Last("save", sv.h, [path |-> sv.path, target |-> None], Ok(None))
                EXCEPT !.pre = sv.pre])
    /\ UNCHANGED <<tmp, hs, uuid, px>>

SaveExcept ==
    /\ sv.pc = "except"
    /\ fs' = UnlinkTarget(sv.path)
    /\ sv' = [sv EXCEPT !.pc = "restore"]
    /\ Done(SaveStepLast)
    /\ UNCHANGED <<tmp, hs, uuid, px>>

SaveRaise ==
    /\ sv.pc = "restore"
    /\ fs' = RestoreOld(sv.path, sv.old)
    /\ sv' = IdleFrame
    /\ Done([Last("save", sv.h, [path |-> sv.path, target |-> None], sv.err)
                EXCEPT !.pre = sv.pre, !.fault = sv.fault])
    /\ UNCHANGED <<tmp, hs, uuid, px>>

(* the process stops in the middle of save and takes no further step *)
Crash ==
    /\ sv.pc \notin {"idle", "crashed"}
    /\ sv' = [sv EXCEPT !.pc = "crashed"]
    /\ UNCHANGED <<fs, tmp, hs, uuid, last, px, rt>>

-----------------------------------------------------------------------------
(* The operations of a handle as actions.  Every one runs to completion    *)
(* between two steps of the single caller thread; none starts while a save  *)
(* is in progress.                                                          *)

Idle == sv.pc = "idle"

Open(h, path, mode) ==
    /\ Idle /\ uuid < MaxUuid
    /\ hs[h].state = "none" \/ hs[h].closed
    /\ LET r == OpenOp(h, path, mode)
       IN  /\ hs' = [hs EXCEPT ![h] = IF r.res.exc = "none" THEN r.obj ELSE @]
           /\ tmp' = r.tmp
           /\ uuid' = r.uuid
           /\ Done(Last("open", h, [path |-> path, mode |-> mode], r.res))
    /\ UNCHANGED <<fs, sv, px>>

AddFile(h, src, file_id, internal_name) ==
    /\ Idle /\ uuid < MaxUuid /\ hs[h].state = "open"
    /\ LET r == AddFileOp(hs[h], src, file_id, internal_name)
       IN  /\ hs' = [hs EXCEPT ![h] = r.obj]
           /\ tmp' = r.tmp
           /\ fs' = r.fs
           /\ uuid' = r.uuid
           /\ Done(Last("add_file", h,
                        [path |-> hs[h].path, src |-> src.name, id |-> file_id,
                         data |-> src.data, internal_name |-> internal_name], r.res))
    /\ UNCHANGED <<sv, px>>

WriteFile(h, file_id, data) ==
    /\ Idle /\ hs[h].state = "open"
    /\ LET r == WriteFileOp(hs[h], file_id, data)
       IN  /\ tmp' = r.tmp
           /\ fs' = r.fs
           /\ Done(Last("write_file", h, [id |-> file_id, data |-> data], r.res))
    /\ UNCHANGED <<hs, uuid, sv, px>>

ReadFile(h, file_id) ==
    /\ Idle /\ hs[h].state = "open"
    /\ Done(Last("read_file", h, [id |-> file_id], ReadFileOp(hs[h], file_id)))
    /\ UNCHANGED <<fs, tmp, hs, uuid, sv, px>>

OpenFile(h, file_id, mode) ==
    /\ Idle /\ hs[h].state = "open"
    /\ LET r == OpenFileOp(hs[h], file_id, mode)
       IN  /\ tmp' = r.tmp
           /\ fs' = r.fs
           /\ Done(Last("open_file", h, [id |-> file_id, mode |-> mode], r.res))
    /\ UNCHANGED <<hs, uuid, sv, px>>

Close(h) ==
    /\ Idle /\ hs[h].state = "open"
    /\ LET r == CloseOp(hs[h])
       IN  /\ tmp' = r.tmp
           /\ hs' = [hs EXCEPT ![h].closed = TRUE]
           /\ Done(Last("close", h, <<>>, r.res))
    /\ UNCHANGED <<fs, uuid, sv, px>>

-----------------------------------------------------------------------------
(* The operations on the Document of a handle as actions.  sk is the key   *)
(* of the Section operated on, ik the key of the Item.                      *)

HasSection(h, sk) == hs[h].state = "open" /\ DictHas(hs[h].data.sections, sk)

SectionAt(h, sk) == DictGet(hs[h].data.sections, sk)

HasItem(h, sk, ik) == HasSection(h, sk) /\ DictHas(SectionAt(h, sk).content, ik)

ItemAt(h, sk, ik) == DictGet(SectionAt(h, sk).content, ik)

(* the Section object under key sk replaced by its state after a method *)
PutSection(h, sk, sec) == [hs EXCEPT ![h].data.sections = DictSet(@, sk, sec)]

AddSection(h, name, type, description) ==
    /\ Idle /\ hs[h].state = "open"
    /\ LET r == DataAddSection(hs[h].data, name, type, description)
       IN  /\ hs' = [hs EXCEPT ![h].data = r.obj]
           /\ Done(Last("add_section", h, [name |-> name], r.res))
    /\ UNCHANGED <<fs, tmp, uuid, sv, px>>

(* data[key] = Section(owner, type, description, {}) *)
SetSection(h, key, owner, type, description) ==
    /\ Idle /\ hs[h].state = "open" /\ hs[owner].state = "open"
    /\ LET r == DataSetItem(hs[h].data, key, Section(owner, type, description, <<>>).val)
       IN  /\ hs' = [hs EXCEPT ![h].data = r.obj]
           /\ Done(Last("data_setitem", h, [key |-> key, owner |-> owner], r.res))
    /\ UNCHANGED <<fs, tmp, uuid, sv, px>>

DelSection(h, key) ==
    /\ Idle /\ hs[h].state = "open"
    /\ LET r == DataDelItem(hs[h].data, key)
       IN  /\ hs' = [hs EXCEPT ![h].data = r.obj]
           /\ Done(Last("data_delitem", h, [key |-> key], r.res))
    /\ UNCHANGED <<fs, tmp, uuid, sv, px>>

(* section.add_item(title, content, image_id, level, name, data); a name   *)
(* of None is replaced by uuid1().hex before anything else                  *)
AddItem(h, sk, title, content, image_id, level, name, data) ==
    /\ Idle /\ HasSection(h, sk) /\ uuid < MaxUuid
    /\ LET key == IF name = None THEN UuidHex(uuid + 1) ELSE name.v
           r   == SectionAddItem(SectionAt(h, sk), title, content, image_id, level, key, data)
       IN  /\ hs' = PutSection(h, sk, r.obj)
           /\ uuid' = IF name = None THEN uuid + 1 ELSE uuid
           /\ Done(Last("add_item", h,
                        [sk |-> sk, title |-> title, content |-> content,
                         image_id |-> image_id, level |-> level, name |-> key,
                         data |-> data], r.res))
    /\ UNCHANGED <<fs, tmp, sv, px>>

(* section[key] = Item(owner, title, content, level, data, image_id) *)
SetItem(h, sk, key, owner, title, content, level, data, image_id) ==
    /\ Idle /\ HasSection(h, sk) /\ hs[owner].state = "open"
    /\ LET r == SectionSetItem(SectionAt(h, sk), key,
                               Item(owner, title, content, level, data, image_id, None).val)
       IN  /\ hs' = PutSection(h, sk, r.obj)
           /\ Done(Last("section_setitem", h, [sk |-> sk, key |-> key, owner |-> owner], r.res))
    /\ UNCHANGED <<fs, tmp, uuid, sv, px>>

DelItem(h, sk, key) ==
    /\ Idle /\ HasSection(h, sk)
    /\ LET r == SectionDelItem(SectionAt(h, sk), key)
       IN  /\ hs' = PutSection(h, sk, r.obj)
           /\ Done(Last("section_delitem", h, [sk |-> sk, key |-> key], r.res))
    /\ UNCHANGED <<fs, tmp, uuid, sv, px>>

RemoveItem(h, sk, name) ==
    /\ Idle /\ HasSection(h, sk)
    /\ LET r == SectionRemoveItem(SectionAt(h, sk), name)
       IN  /\ hs' = PutSection(h, sk, r.obj)
           /\ Done(Last("remove_item", h, [sk |-> sk, name |-> name], r.res))
    /\ UNCHANGED <<fs, tmp, uuid, sv, px>>

AddData(h, sk, ik, name, value) ==
    /\ Idle /\ HasItem(h, sk, ik)
    /\ LET r == ItemAddData(ItemAt(h, sk, ik), name, value)
       IN  /\ hs' = PutSection(h, sk, [SectionAt(h, sk) EXCEPT
                                          !.content = DictSet(@, ik, r.obj)])
           /\ Done(Last("add_data", h,
                        [sk |-> sk, ik |-> ik, name |-> name, value |-> value], r.res))
    /\ UNCHANGED <<fs, tmp, uuid, sv, px>>

RemoveData(h, sk, ik, name) ==
    /\ Idle /\ HasItem(h, sk, ik)
    /\ LET r == ItemRemoveData(ItemAt(h, sk, ik), name)
       IN  /\ hs' = PutSection(h, sk, [SectionAt(h, sk) EXCEPT
                                          !.content = DictSet(@, ik, r.obj)])
           /\ Done(Last("remove_data", h, [sk |-> sk, ik |-> ik, name |-> name], r.res))
    /\ UNCHANGED <<fs, tmp, uuid, sv, px>>

-----------------------------------------------------------------------------
(* Inputs *)

Handles == {"A", "B"}

FsPaths == {"P", "P.old", "Q", "Q.old"}

(* source files outside the archive: name.split("."), presence, content *)
Src1 == [name |-> <<"s1", "png">>, exists |-> TRUE, data |-> Bytes("B1")]

Src2 == [name |-> <<"s2">>, exists |-> TRUE, data |-> Bytes("B2")]

SrcMissing == [name |-> <<"nosuch">>, exists |-> FALSE, data |-> Bytes("")]

FileIds == {"img1", "img2"}

NoPx ==
    [kind |-> "none", stage |-> "none", obj |-> None, payload |-> pickle_dumps(None),
     res |-> Ok(None)]

Init ==
    /\ fs = [p \in FsPaths |-> NoFile]
    /\ tmp = [r \in {} |-> EmptyDir]
    /\ hs = [h \in Handles |-> NoHandle]
    /\ uuid = 0
    /\ sv = IdleFrame
    /\ last = NoOp
    /\ px = NoPx
    /\ rt = NoTrail

-----------------------------------------------------------------------------
(* SpecSave: one writable handle on P; any step of the write phase of save  *)
(* may fail with an I/O error, and the process may stop inside save.        *)

NextSave ==
    \/ \E mode \in {"w", "r+"} : Open("A", "P", mode)
    \/ \E id \in FileIds : AddFile("A", Src1, id, None)
    \/ WriteFile("A", "img1", Bytes("B3"))
    \/ AddSection("A", "s1", PyStr("t"), PyStr("d"))
    \/ Close("A")
    \/ SaveBegin("A", None)
    \/ \E fault \in BOOLEAN : SaveCreate(fault)
    \/ \E fault \in BOOLEAN : SaveWriteData(fault)
    \/ \E fault \in BOOLEAN : SaveWriteInfo(fault)
    \/ \E fault \in BOOLEAN : SaveWriteFile(fault)
    \/ \E fault \in BOOLEAN : SaveRemoveOld(fault)
    \/ SaveReturn
    \/ SaveExcept
    \/ SaveRaise
    \/ Crash

SpecSave == Init /\ [][NextSave]_vars


(* the save that returned last raised an error of its write phase *)
SaveFailed == last.op = "save" /\ last.fault # "none"

(* C1: when a step of the write phase of save fails, then once save has    *)
(* raised, the target path holds exactly what it held before the save       *)
(* (nothing, if nothing was there), no ".old" sibling is left, and the      *)
(* error raised is the one the failing step raised.                         *)
C1_FailedSaveRestoresTarget ==
    SaveFailed =>
        /\ fs[last.a.path] = last.pre
        /\ fs[OldOf(last.a.path)] = NoFile
        /\ last.exc = last.fault

(* a save over an existing valid archive wrote a new container in full and  *)
(* then failed to delete the ".old" marker                                  *)
C1_Witness ==
    /\ SaveFailed /\ is_zipfile(last.pre)
    /\ last.eargs = <<"remove">>
    /\ Len(hs[last.h].info.files) > 0

SaveRunning == sv.pc # "idle"

(* C2: in every intermediate state of save the target path holds either    *)
(* the complete previous archive or a complete (finalized) new one.         *)
C2_TargetAlwaysComplete ==
    (SaveRunning /\ is_zipfile(sv.pre)) =>
        fs[sv.path] = sv.pre \/ is_zipfile(fs[sv.path])

(* C3: at every step of a save over a valid archive, the target path or    *)
(* its ".old" sibling holds a complete valid archive, so that stopping the  *)
(* process there loses nothing.                                             *)
C3_OldKeptUntilFinalized ==
    (SaveRunning /\ is_zipfile(sv.pre)) =>
        is_zipfile(fs[sv.path]) \/ is_zipfile(fs[OldOf(sv.path)])


-----------------------------------------------------------------------------
(* SpecDoc: two handles on the archive at P, which an earlier session left  *)
(* there: one section "s1" with one item "k1", one resource "img1".         *)

Item0 == Item("", PyStr("t"), PyStr("c"), PyInt(1), None, PyStr("img1"), None).val

Data0 ==
    [parent |-> "",
     sections |-> << <<"s1", [parent |-> "", type |-> PyStr("t"), description |-> PyStr("d"),
                              content |-> << <<"k1", Item0>> >>]>> >>]

Info0 == [parent |-> "", name |-> InfoDefaultName, files |-> << <<"img1", <<"n1">>>> >>]

(* the container save writes for that session *)
Archive0 ==
    ZipFinalize(ZipAppend(ZipAppend(ZipAppend(NewZip,
        <<"data">>, DataExport(Data0)),
        <<"info">>, InfoExport(Info0)),
        ZipArcName(ArcName(<<"n1">>)), Bytes("B1")))

InitDoc ==
    /\ fs = [p \in FsPaths |-> IF p = "P" THEN Archive0 ELSE NoFile]
    /\ tmp = [r \in {} |-> EmptyDir]
    /\ hs = [h \in Handles |-> NoHandle]
    /\ uuid = 0
    /\ sv = IdleFrame
    /\ last = NoOp
    /\ px = NoPx
    /\ rt = NoTrail

Meta1 == PyDict(<< <<"m", PyInt(1)>> >>)

(* SpecDoc: A is the handle whose Document is operated on, in any mode; B  *)
(* is a second writable handle, the owner of the nodes inserted from outside *)
NextDoc ==
    \/ \E mode \in Modes : Open("A", "P", mode)
    \/ \E mode \in {"w", "r+"} : Open("B", "P", mode)
    \/ AddSection("A", "s1", PyStr("t"), PyStr("d"))
    \/ \E owner \in Handles, key \in {"s1", "s2"} :
          SetSection("A", key, owner, PyStr("t2"), PyStr("d"))
    \/ \E key \in {"s1", "s2"} : DelSection("A", key)
    \/ \E a \in {<<PyStr("k1"), None>>, <<PyStr("k2"), Meta1>>} :
          AddItem("A", "s1", PyStr("t"), PyStr("c"), PyStr("img1"), PyInt(1), a[1], a[2])
    \/ \E owner \in Handles, key \in {"k1", "k2"} :
          SetItem("A", "s1", key, owner, PyStr("t2"), PyStr("c"), PyInt(1), None, PyStr("img1"))
    \/ \E key \in {"k1", "k2"} : DelItem("A", "s1", key)
    \/ \E key \in {"k1", "k2"} : RemoveItem("A", "s1", key)
    \/ \E key \in {"k1", "k2"} : AddData("A", "s1", key, "m", PyInt(2))
    \/ \E key \in {"k1", "k2"} : RemoveData("A", "s1", key, "m")

SpecDoc == InitDoc /\ [][NextDoc]_vars

(* C6: on two distinct writable handles, inserting an Item or a Section    *)
(* constructed under the other handle raises InvalidParent and leaves the   *)
(* Document inserted into (keys, values, order) as it was, whether or not   *)
(* the key is already present.                                              *)
C6_OwnershipGate ==
    [][(/\ last'.op \in {"section_setitem", "data_setitem"}
        /\ last'.a.owner # last'.h
        /\ hs[last'.h].writable /\ hs[last'.a.owner].writable)
       => (last'.exc = "InvalidParent" /\ hs' = hs)]_vars

(* an Item of B was refused under a key the Section of A already holds *)
C6_Witness ==
    /\ last.op = "section_setitem" /\ last.h = "A" /\ last.a.owner = "B"
    /\ last.exc = "InvalidParent"
    /\ hs["A"].writable /\ hs["B"].writable
    /\ HasItem("A", last.a.sk, last.a.key)



-----------------------------------------------------------------------------
(* SpecGate: A holds the archive at P read-only and every mutating method   *)
(* is tried through it, with present and absent keys, registered and        *)
(* unregistered ids, existing and missing sources; B is a writable handle   *)
(* on the same archive that registers a resource and saves.                 *)

PathObj(p) == [t |-> "Path", v |-> p]

NextGate ==
    \/ Open("A", "P", "r")
    \/ \E mode \in {"w", "r+"} : Open("B", "P", mode)
    \/ AddSection("A", "s2", PyStr("t"), PyStr("d"))
    \/ \E owner \in Handles, key \in {"s1", "s2"} :
          SetSection("A", key, owner, PyStr("t2"), PyStr("d"))
    \/ \E key \in {"s1", "s2"} : DelSection("A", key)
    \/ \E name \in {None, PyStr("k1"), PyStr("k2")}, data \in {None, Meta1} :
          AddItem("A", "s1", PyStr("t"), PyStr("c"), PyStr("img1"), PyInt(1), name, data)
    \/ \E owner \in Handles, key \in {"k1", "k2"} :
          SetItem("A", "s1", key, owner, PyStr("t2"), PyStr("c"), PyInt(1), None, PyStr("img1"))
    \/ \E key \in {"k1", "k2"} : DelItem("A", "s1", key)
    \/ \E key \in {"k1", "k2"} : RemoveItem("A", "s1", key)
    \/ AddData("A", "s1", "k1", "m", PyInt(2))
    \/ RemoveData("A", "s1", "k1", "m")
    \/ \E src \in {Src1, SrcMissing}, id \in FileIds, name \in {None, PyStr(<<"n2">>)} :
          AddFile("A", src, id, name)
    \/ \E id \in FileIds : WriteFile("A", id, Bytes("B3"))
    \/ \E target \in {None, PathObj("Q"), PyStr("Q")} : SaveBegin("A", target)
    \/ AddFile("B", Src2, "img2", PyStr(<<"n2">>))
    \/ SaveBegin("B", None)
    \/ SaveCreate(FALSE)
    \/ SaveWriteData(FALSE)
    \/ SaveWriteInfo(FALSE)
    \/ SaveWriteFile(FALSE)
    \/ SaveRemoveOld(FALSE)
    \/ SaveReturn

SpecGate == InitDoc /\ [][NextGate]_vars


MutatingOps ==
    {"add_item", "remove_item", "add_section", "data_setitem", "data_delitem",
     "section_setitem", "section_delitem", "add_data", "remove_data",
     "add_file", "write_file", "save"}

ReadOnly(h) == hs[h].state = "open" /\ hs[h].mode = "r"

(* C4: an attempt of any mutating method through a read-only handle leaves *)
(* the Document, the Resource Index and the files on disk as they were, and *)
(* the handle has no staging directory.                                     *)
C4_ReadOnlyAttemptChangesNothing ==
    [][(last'.op \in MutatingOps /\ ReadOnly(last'.h))
       => (/\ hs' = hs /\ fs' = fs /\ tmp' = tmp
           /\ hs'[last'.h].root \notin DOMAIN tmp')]_vars

(* remove_item of a present item was tried through the read-only handle    *)
(* and the item is still there                                              *)
C4_Witness ==
    /\ last.op = "remove_item" /\ ReadOnly(last.h)
    /\ last.exc = "UnsupportedOperation"
    /\ HasItem(last.h, last.a.sk, last.a.name)

GatedOps ==
    {"add_item", "remove_item", "add_section", "add_data", "remove_data",
     "add_file", "write_file", "save"}

(* C5: through a read-only handle each of add_item, remove_item,           *)
(* add_section, add_data, remove_data, add_file, write_file and save raises *)
(* UnsupportedOperation, whatever its other arguments are.                  *)
C5_PermissionCheckedFirst ==
    (last.op \in GatedOps /\ ReadOnly(last.h)) => last.exc = "UnsupportedOperation"


-----------------------------------------------------------------------------
(* SpecFiles: one handle on P, opened in any mode and opened again after a  *)
(* close; resources are registered from two sources under generated and     *)
(* caller-chosen internal names, read, overwritten and saved.               *)

InternalNames == {PyStr(<<"n1">>), PyStr(<<".", "n1">>)}

NextFiles ==
    \/ \E mode \in Modes : Open("A", "P", mode)
    \/ \E src \in {Src1, Src2, SrcMissing} : AddFile("A", src, "img1", None)
    \/ \E name \in InternalNames : AddFile("A", Src2, "img2", name)
    \/ \E id \in FileIds : ReadFile("A", id)
    \/ WriteFile("A", "img1", Bytes("B3"))
    \/ Close("A")
    \/ SaveBegin("A", None)
    \/ SaveCreate(FALSE)
    \/ SaveWriteData(FALSE)
    \/ SaveWriteInfo(FALSE)
    \/ SaveWriteFile(FALSE)
    \/ SaveRemoveOld(FALSE)
    \/ SaveReturn
    \/ SaveExcept
    \/ SaveRaise

SpecFiles == Init /\ [][NextFiles]_vars

IsOpen(h) == hs[h].state = "open"

(* C7: export followed by import under the same handle gives back the      *)
(* Document (section keys and order, type and description, item keys and    *)
(* order, every item field, absent metadata absent) and the Resource Index  *)
(* (display name, external id -> internal name).                            *)
C7_ExportImportRoundTrip ==
    \A h \in Handles :
        IsOpen(h) =>
            /\ DataImport(DataExport(hs[h].data), h, hs[h].path) = Ok(hs[h].data)
            /\ InfoImport(InfoExport(hs[h].info), h, hs[h].path) = Ok(hs[h].info)

(* the read that follows the history kept in rt, of the id it is about *)
ReadOfTrail == last.op = "read_file" /\ last.h = rt.h /\ last.a.id = rt.id

ReturnsTrailBytes == last.exc = "none" /\ last.val = rt.data

(* C9 as stated: after a successful add_file(src, id) on a handle opened in *)
(* w or r+, read_file(id) returns the bytes of src, and so it does after    *)
(* save, close and opening the archive again in r or r+.                    *)
C9_AnyWritableMode ==
    (ReadOfTrail /\ rt.stage \in {1, 4}) => ReturnsTrailBytes

(* C9 amended: the read right after add_file returns the bytes of src on a  *)
(* handle opened in r+; after add_file on a handle opened in w or r+, save, *)
(* close and opening the archive again in r or r+, read_file(id) returns    *)
(* the bytes of src.                                                        *)
C9_FileRoundTrip ==
    (ReadOfTrail /\ (rt.stage = 4 \/ (rt.stage = 1 /\ hs[rt.h].mode = "r+")))
        => ReturnsTrailBytes

(* a resource registered through a handle opened in w was read back after   *)
(* save, close and a read-only open                                         *)
C9_Witness ==
    /\ ReadOfTrail /\ rt.stage = 4 /\ ReturnsTrailBytes
    /\ hs[rt.h].mode = "r" /\ rt.data = Src2.data

DuplicateAddFile ==
    last'.op = "add_file" /\ DictHas(hs[last'.h].info.files, last'.a.id)

RegistrationsKept == last'.exc = "FileExistsError" /\ hs' = hs /\ tmp' = tmp

IdsUnique == \A h \in Handles : DictUnique(hs[h].info.files)

(* C10 as stated: add_file with an external id that is registered fails    *)
(* with FileExistsError and changes neither the Resource Index nor the      *)
(* staged bytes; every external id appears at most once in the index.       *)
C10_AnyDuplicateRejected ==
    [][DuplicateAddFile => RegistrationsKept]_vars /\ []IdsUnique

(* C10 amended: add_file with an existing source path and an external id    *)
(* that is registered fails with FileExistsError and changes neither the    *)
(* Resource Index nor the staged bytes (with a missing source it fails with *)
(* FileNotFoundError, nothing changed either); every external id appears at *)
(* most once in the index.                                                  *)
C10_DuplicateIdRejected ==
    /\ [][DuplicateAddFile =>
            IF last'.a.src = SrcMissing.name
            THEN last'.exc = "FileNotFoundError" /\ hs' = hs /\ tmp' = tmp
            ELSE RegistrationsKept]_vars
    /\ []IdsUnique

(* a second add_file of a registered id, from another source, was refused   *)
(* on a writable handle and the staged bytes are those of the first source  *)
C10_Witness ==
    /\ last.op = "add_file" /\ last.exc = "FileExistsError"
    /\ hs[last.h].writable /\ hs[last.h].root \in DOMAIN tmp
    /\ DictHas(hs[last.h].info.files, last.a.id)
    /\ StagedPath(DictGet(hs[last.h].info.files, last.a.id)) \in DOMAIN tmp[hs[last.h].root]
    /\ tmp[hs[last.h].root][StagedPath(DictGet(hs[last.h].info.files, last.a.id))]
          \notin {last.a.data, Bytes("B3")}

-----------------------------------------------------------------------------
(* SpecCodec: export_data and import_data as functions.  A Document or a    *)
(* Resource Index is exported by a build of any version 0..MaxVersionTag    *)
(* and the payload imported by this build.                                  *)

Item1 == Item("A", PyStr("t1"), PyStr("c1"), PyInt(2), Meta1, PyStr("img2"), None).val

CodecItems ==
    {<<>>, << <<"k1", [Item0 EXCEPT !.parent = "A"]>> >>,
     << <<"k2", Item1>>, <<"k1", [Item0 EXCEPT !.parent = "A"]>> >>}

CodecSection(content) ==
    [parent |-> "A", type |-> PyStr("t"), description |-> PyStr("d"), content |-> content]

CodecDocs ==
    {[parent |-> "A", sections |-> s] :
        s \in {<<>>}
              \cup {<< <<"s1", CodecSection(c)>> >> : c \in CodecItems}
              \cup {<< <<"s2", CodecSection(c)>>, <<"s1", CodecSection(d)>> >> :
                       c \in CodecItems, d \in CodecItems}}

CodecInfos ==
    {[parent |-> "A", name |-> n, files |-> f] :
        n \in {InfoDefaultName, "doc"},
        f \in {<<>>, << <<"img1", <<"n1">>>> >>,
               << <<"img2", <<"u1.png">>>>, <<"img1", <<"n1">>>> >>}}

InitCodec ==
    /\ fs = [p \in FsPaths |-> NoFile]
    /\ tmp = [r \in {} |-> EmptyDir]
    /\ hs = [h \in Handles |-> NoHandle]
    /\ uuid = 0
    /\ sv = IdleFrame
    /\ last = NoOp
    /\ rt = NoTrail
    /\ px \in {[NoPx EXCEPT !.kind = "data", !.stage = "built", !.obj = d] : d \in CodecDocs}
         \cup {[NoPx EXCEPT !.kind = "info", !.stage = "built", !.obj = i] : i \in CodecInfos}

(* the payload as the build whose VERSION is tag writes it *)
Tagged(payload, tag) ==
    pickle_dumps(PyDict(DictSet(pickle_loads(payload).v, "version", PyInt(tag))))

Export(tag) ==
    /\ px.stage = "built"
    /\ px' = [px EXCEPT !.stage = "exported",
                        !.payload = Tagged(IF px.kind = "data" THEN DataExport(px.obj)
                                           ELSE InfoExport(px.obj), tag)]
    /\ UNCHANGED <<fs, tmp, hs, uuid, sv, last, rt>>

Import ==
    /\ px.stage \in {"exported", "damaged"}
    /\ px' = [px EXCEPT !.stage = "imported",
                        !.res = IF px.kind = "data" THEN DataImport(px.payload, "A", "P")
                                ELSE InfoImport(px.payload, "A", "P")]
    /\ UNCHANGED <<fs, tmp, hs, uuid, sv, last, rt>>

NextCodec ==
    \/ \E tag \in 0..MaxVersionTag : Export(tag)
    \/ Import

SpecCodec == InitCodec /\ [][NextCodec]_vars

Found == DictGet(pickle_loads(px.payload).v, "version").v

(* C8: importing a well-formed Document or Resource Index payload whose     *)
(* version tag is greater than VERSION fails with VersionError carrying     *)
(* (VERSION, found); with a tag equal to or less than VERSION it succeeds.  *)
C8_VersionGate ==
    px.stage = "imported" =>
        IF Found > VERSION
        THEN /\ px.res.exc = "VersionError"
             /\ px.res.args[1] = VERSION /\ px.res.args[2] = Found
        ELSE px.res.exc = "none"

(* a Resource Index payload tagged one above VERSION was refused *)
C8_Witness ==
    /\ px.stage = "imported" /\ px.kind = "info" /\ Found = VERSION + 1
    /\ px.res.exc = "VersionError" /\ Len(px.obj.files) > 0


-----------------------------------------------------------------------------
(* SpecFrame: a session on the archive at P that never saves.  Resources    *)
(* are registered under generated, relative and absolute internal names,    *)
(* written and opened; the Document is changed; the handle is closed and    *)
(* the archive opened again.                                                *)

AbsP == PyStr(<<"/", "P">>)

NextFrame ==
    \/ \E mode \in Modes : Open("A", "P", mode)
    \/ \E name \in {None, PyStr(<<"n2">>), AbsP} : AddFile("A", Src2, "img2", name)
    \/ \E id \in FileIds : WriteFile("A", id, Bytes("B3"))
    \/ \E id \in FileIds, mode \in {"r", "w"} : OpenFile("A", id, mode)
    \/ \E id \in FileIds : ReadFile("A", id)
    \/ AddSection("A", "s2", PyStr("t"), PyStr("d"))
    \/ DelItem("A", "s1", "k1")
    \/ AddData("A", "s1", "k1", "m", PyInt(2))
    \/ Close("A")

SpecFrame == InitDoc /\ [][NextFrame]_vars

(* C11: no operation of a handle other than save changes a file of the      *)
(* directory of the archives: through add_file, write_file, open_file, the  *)
(* Document mutations and close the file at the handle's path stays what it *)
(* was at open.                                                             *)
C11_OnlySaveChangesContainer ==
    [][last'.op # "save" => fs' = fs]_vars


SaveSucceeded == last.op = "save" /\ last.exc = "none"

(* the container save left at the target is finalized and valid *)
SavedContainerValid ==
    /\ is_zipfile(fs[last.a.path])
    /\ CheckValidity(last.a.path) = Ok(None)
    /\ fs[OldOf(last.a.path)] = NoFile

(* it holds one member files/<internal name> for every registered resource *)
SavedResourcesPresent ==
    \A i \in 1..Len(hs[last.h].info.files) :
        ZipHas(fs[last.a.path], ArcName(PathStr(hs[last.h].info.files[i][2])))

(* what _load_data reads from it is the state of the handle that saved *)
SavedStateLoads ==
    /\ DataImport(ZipRead(fs[last.a.path], <<"data">>), last.h, last.a.path)
          = Ok(hs[last.h].data)
    /\ InfoImport(ZipRead(fs[last.a.path], <<"info">>), last.h, last.a.path)
          = Ok(hs[last.h].info)

(* C12: when save has returned without error, the target is a finalized,    *)
(* valid container with the data entry, the info entry and one              *)
(* files/<internal name> entry per registered resource; loading it gives    *)
(* the Document and the Resource Index the handle held at the save; no      *)
(* ".old" sibling is left.                                                  *)
C12_SavedContainerIsHandleState ==
    SaveSucceeded => SavedContainerValid /\ SavedResourcesPresent /\ SavedStateLoads


AddItemDone == last.op = "add_item" /\ hs[last.h].writable

(* the Item now under the name add_item was given *)
AddedItem == ItemAt(last.h, last.a.sk, last.a.name)

(* C13: on a writable handle, after add_item(title, content, image_id,      *)
(* level, name, data) succeeded, section[name] has exactly that title,      *)
(* content, resource id, level and metadata; and add_item succeeds when     *)
(* data is omitted, for every non-null image_id.                            *)
C13_AddItemStoresArguments ==
    AddItemDone =>
        /\ (last.a.data = None /\ last.a.image_id # None) => last.exc = "none"
        /\ last.exc = "none" =>
              /\ AddedItem.title = last.a.title
              /\ AddedItem.content = last.a.content
              /\ AddedItem.image_id = last.a.image_id
              /\ AddedItem.level = last.a.level
              /\ AddedItem.data = last.a.data


-----------------------------------------------------------------------------
(* SpecOpen: what BDMFile() does with the file it finds at P: nothing, a    *)
(* file that is no container, a container that was not finalized or lacks  *)
(* a required entry, an archive saved earlier, one written by a later       *)
(* version.  Two handles are opened in any mode, recognized or not, used    *)
(* and closed.                                                              *)

Info2 ==
    [parent |-> "", name |-> InfoDefaultName,
     files |-> << <<"img1", <<"n1">>>>, <<"img2", <<"n2">>>> >>]

(* an archive with two resources *)
Archive2 ==
    ZipFinalize(ZipAppend(ZipAppend(ZipAppend(ZipAppend(NewZip,
        <<"data">>, DataExport(Data0)),
        <<"info">>, InfoExport(Info2)),
        ZipArcName(ArcName(<<"n1">>)), Bytes("B1")),
        ZipArcName(ArcName(<<"n2">>)), Bytes("B2")))

(* the archive a build of version VERSION + 1 saves *)
ArchiveLater ==
    ZipFinalize(ZipAppend(ZipAppend(NewZip,
        <<"data">>, [pickle |-> PyDict(<< <<"version", PyInt(VERSION + 1)>>,
                                          <<"sections", PyDict(<<>>)>> >>)]),
        <<"info">>, InfoExport(Info0)))

ZipNoInfo == ZipFinalize(ZipAppend(NewZip, <<"data">>, DataExport(Data0)))

ZipNoData == ZipFinalize(ZipAppend(NewZip, <<"info">>, InfoExport(Info0)))

(* what a save of Archive0 leaves when the process stops before its end *)
ZipUnfinalized == [Archive0 EXCEPT !.closed = FALSE]

FilesAtP ==
    {NoFile, RawFile(Bytes("B1")), ZipUnfinalized, ZipNoInfo, ZipNoData,
     Archive0, Archive2, ArchiveLater}

InitOpen ==
    /\ fs \in {[p \in FsPaths |-> IF p = "P" THEN f ELSE NoFile] : f \in FilesAtP}
    /\ tmp = [r \in {} |-> EmptyDir]
    /\ hs = [h \in Handles |-> NoHandle]
    /\ uuid = 0
    /\ sv = IdleFrame
    /\ last = NoOp
    /\ px = NoPx
    /\ rt = NoTrail

ModeArgs == Modes \cup {"a", "rw"}

NextOpen ==
    \/ \E h \in Handles, mode \in ModeArgs : Open(h, "P", mode)
    \/ \E h \in Handles : Close(h)
    \/ AddFile("A", Src2, "img2", None)
    \/ WriteFile("A", "img1", Bytes("B3"))
    \/ \E h \in Handles : ReadFile(h, "img1")

SpecOpen == InitOpen /\ [][NextOpen]_vars

(* what is wrong with the arguments of the open just made, "" when nothing  *)
(* of what open checks before it stages and loads                           *)
Rejection(path, mode) ==
    IF mode \notin {"w", "r", "r+"} THEN "ValueError"
    ELSE IF fs[path] = NoFile THEN (IF mode = "r" THEN "FileNotFoundError" ELSE "")
    ELSE IF \/ ~is_zipfile(fs[path])
            \/ <<"info">> \notin {fs[path].entries[i][1] : i \in 1..Len(fs[path].entries)}
            \/ <<"data">> \notin {fs[path].entries[i][1] : i \in 1..Len(fs[path].entries)}
    THEN "InvalidFile"
    ELSE ""

(* C14: an open with an unrecognized mode fails with ValueError; with a     *)
(* recognized mode, a path that does not exist fails in mode r with         *)
(* FileNotFoundError, and an existing path that is no finalized container   *)
(* or lacks the info or the data entry fails with InvalidFile in every      *)
(* mode.  Each of these failures leaves the files, the staging directories  *)
(* and the handles as they were: no staging directory is created for it.    *)
C14_OpenRejectsWithoutEffect ==
    [][(last'.op = "open" /\ Rejection(last'.a.path, last'.a.mode) # "")
       => /\ last'.exc = Rejection(last'.a.path, last'.a.mode)
          /\ fs' = fs /\ tmp' = tmp /\ hs' = hs /\ uuid' = uuid]_vars

(* a container without its data entry was refused in a writable mode and    *)
(* no staging directory exists                                              *)
C14_Witness ==
    /\ last.op = "open" /\ last.exc = "InvalidFile" /\ last.a.mode = "r+"
    /\ last.eargs[2] = "Missing 'data'"
    /\ DOMAIN tmp = {} /\ fs[last.a.path] = ZipNoData


OpenedWritable ==
    last'.op = "open" /\ last'.exc = "none" /\ last'.a.mode \in {"w", "r+"}

(* the staging directory of the handle just opened holds every member of    *)
(* the container f other than info and data, with the bytes of the member   *)
ResourcesStaged(f, root) ==
    \A i \in 1..Len(f.entries) :
        f.entries[i][1] \notin {<<"info">>, <<"data">>} =>
            /\ f.entries[i][1] \in DOMAIN tmp'[root]
            /\ tmp'[root][f.entries[i][1]] = f.entries[i][2]

(* C15: opening an existing valid archive in mode w or r+ leaves the file   *)
(* as it is, loads the persisted Document and Resource Index, and stages    *)
(* every resource entry with identical bytes; opening a path that does not  *)
(* exist in mode w or r+ gives an empty Document, an empty Resource Index   *)
(* and an empty staging directory, and creates no file.                     *)
C15_WritableOpenKeepsArchive ==
    [][OpenedWritable =>
         LET h    == last'.h
             path == last'.a.path
         IN  /\ fs' = fs
             /\ hs'[h].root \in DOMAIN tmp' /\ hs'[h].root \notin DOMAIN tmp
             /\ IF fs[path] # NoFile
                THEN /\ Ok(hs'[h].data) = DataImport(ZipRead(fs[path], <<"data">>), h, path)
                     /\ Ok(hs'[h].info) = InfoImport(ZipRead(fs[path], <<"info">>), h, path)
                     /\ ResourcesStaged(fs[path], hs'[h].root)
                ELSE /\ hs'[h].data = EmptyData(h)
                     /\ hs'[h].info = EmptyInfo(h)
                     /\ tmp'[hs'[h].root] = EmptyDir]_vars

(* the archive with two resources was opened in mode w: it is still at P,   *)
(* its Document has the section it was saved with, both resources are staged *)
C15_Witness ==
    /\ last.op = "open" /\ last.exc = "none" /\ last.a.mode = "w"
    /\ fs[last.a.path] = Archive2
    /\ HasItem(last.h, "s1", "k1")
    /\ tmp[hs[last.h].root][<<"files", "n2">>] = Bytes("B2")

InSession(h) == hs[h].state = "open" /\ ~hs[h].closed

(* C16: between its open and its close a handle has a staging directory     *)
(* exactly when it is writable; no two handles have the same one; after     *)
(* close the staging directory is gone; a read-only handle has none.        *)
C16_StagingLifecycle ==
    \A h \in Handles :
        hs[h].state = "open" =>
            /\ InSession(h) => (hs[h].root \in DOMAIN tmp <=> hs[h].writable)
            /\ hs[h].closed => hs[h].root \notin DOMAIN tmp
            /\ ~hs[h].writable => hs[h].root = ""
            /\ \A g \in Handles \ {h} :
                  (hs[g].state = "open" /\ hs[g].writable /\ hs[h].writable)
                      => hs[g].root # hs[h].root

(* two writable handles were opened on the same archive; one was closed,    *)
(* the other still has its staging directory with the resource in it        *)
C16_Witness ==
    /\ hs["A"].state = "open" /\ hs["A"].writable /\ hs["A"].closed
    /\ InSession("B") /\ hs["B"].writable /\ hs["B"].path = hs["A"].path
    /\ <<"files", "n1">> \in DOMAIN tmp[hs["B"].root]
    /\ last.op = "close"


-----------------------------------------------------------------------------
(* SpecShape: payloads that decode but are not what export_data writes: a   *)
(* value that is no mapping, a mapping with one field missing.              *)

(* the exported mapping without its field k *)
Strip(k) ==
    /\ px.stage = "exported" /\ DictHas(pickle_loads(px.payload).v, k)
    /\ px' = [px EXCEPT !.stage = "damaged",
                        !.payload = pickle_dumps(PyDict(DictDel(pickle_loads(px.payload).v, k)))]
    /\ UNCHANGED <<fs, tmp, hs, uuid, sv, last, rt>>

(* a payload that is the pickle of a value of another type *)
Replace(v) ==
    /\ px.stage = "exported"
    /\ px' = [px EXCEPT !.stage = "damaged", !.payload = pickle_dumps(v)]
    /\ UNCHANGED <<fs, tmp, hs, uuid, sv, last, rt>>

NextShape ==
    \/ \E tag \in 0..MaxVersionTag : Export(tag)
    \/ \E k \in {"version", "sections", "name", "files"} : Strip(k)
    \/ \E v \in {None, PyStr("x"), PyInt(VERSION)} : Replace(v)
    \/ Import

SpecShape == InitCodec /\ [][NextShape]_vars

Fields(kind) == IF kind = "data" THEN {"version", "sections"} ELSE {"version", "name", "files"}

(* the payload is no mapping or lacks a field import_data reads *)
Misshapen ==
    \/ ~IsDict(pickle_loads(px.payload))
    \/ \E k \in Fields(px.kind) : ~DictHas(pickle_loads(px.payload).v, k)

(* C17: importing a Document or Resource Index payload that decodes to a    *)
(* value that is no mapping, or to a mapping without the version tag or     *)
(* without the sections / name / files field, fails with InvalidFile.       *)
C17_MisshapenIsInvalidFile ==
    (px.stage = "imported" /\ Misshapen) => px.res.exc = "InvalidFile"


-----------------------------------------------------------------------------
(* SpecReads: a read-write session on the archive at P (resource "img1"     *)
(* stored as "n1"): a second resource is registered under a generated or a  *)
(* caller-chosen internal name, both are written, read and saved.           *)

NextReads ==
    \/ \E mode \in {"r+", "w"} : Open("A", "P", mode)
    \/ \E name \in {None, PyStr(<<"n1">>), PyStr(<<"n2">>)} : AddFile("A", Src2, "img2", name)
    \/ \E id \in FileIds : WriteFile("A", id, Bytes("B3"))
    \/ \E id \in FileIds : ReadFile("A", id)
    \/ SaveBegin("A", None)
    \/ SaveCreate(FALSE)
    \/ SaveWriteData(FALSE)
    \/ SaveWriteInfo(FALSE)
    \/ SaveWriteFile(FALSE)
    \/ SaveRemoveOld(FALSE)
    \/ SaveReturn
    \/ Close("A")

SpecReads == InitDoc /\ [][NextReads]_vars

(* the step is an operation of handle h, in mode r+ and not closed *)
ReadWriteStep(h) == last'.h = h /\ hs[h].mode = "r+" /\ InSession(h)

(* what read_file(id) returns through handle h *)
Reads(h, id) == ReadFileOp(hs[h], id)

(* a write returned: read_file of the id written returns the bytes written *)
WriteIsRead ==
    \A h \in Handles, id \in FileIds :
        (/\ ReadWriteStep(h) /\ last'.op \in {"add_file", "write_file"}
         /\ last'.exc = "none" /\ last'.a.id = id)
            => Reads(h, id)' = Ok(last'.a.data)

(* a write does not change what read_file returns for another registered id *)
WriteLeavesOthers ==
    \A h \in Handles, id \in FileIds :
        (/\ ReadWriteStep(h) /\ last'.op \in {"add_file", "write_file"}
         /\ last'.a.id # id /\ DictHas(hs[h].info.files, id))
            => Reads(h, id)' = Reads(h, id)

(* a step of save, a read, a failed write change no read *)
OthersLeaveReads ==
    \A h \in Handles, id \in FileIds :
        (/\ ReadWriteStep(h)
         /\ last'.op \in {"save", "read_file"} \/ last'.exc \notin {"none", "pending"})
            => Reads(h, id)' = Reads(h, id)

(* C18: through a handle in mode r+, read_file(id) returns the bytes        *)
(* written last to id through that handle by add_file or write_file (the    *)
(* bytes extracted at open if there was no write), with or without a save   *)
(* in between; a write to one external id does not change what read_file    *)
(* returns for another, however the ids were registered.                    *)
C18_ReadsFollowWrites ==
    [][WriteIsRead /\ WriteLeavesOthers /\ OthersLeaveReads]_vars


-----------------------------------------------------------------------------
(* SpecLookup: the reading methods of the handle, the Document and its      *)
(* Sections, through a handle opened in any mode on the archive at P, with  *)
(* present and absent keys.                                                 *)

(* a reading method of the Document: its outcome is recorded, nothing else  *)
(* changes                                                                  *)
DataRead(h, op, key) ==
    /\ Idle /\ hs[h].state = "open"
    /\ Done(Last(op, h, [key |-> key],
                 CASE op = "data_getitem"  -> DataGetItem(hs[h].data, key)
                   [] op = "data_contains" -> DataContains(hs[h].data, key)
                   [] op = "data_iter"     -> DataIter(hs[h].data)
                   [] op = "data_len"      -> DataLen(hs[h].data)))
    /\ UNCHANGED <<fs, tmp, hs, uuid, sv, px>>

(* a reading method of the Section under sk *)
SectionRead(h, sk, op, key) ==
    /\ Idle /\ HasSection(h, sk)
    /\ Done(Last(op, h, [sk |-> sk, key |-> key],
                 CASE op = "section_getitem"  -> SectionGetItem(SectionAt(h, sk), key)
                   [] op = "section_contains" -> SectionContains(SectionAt(h, sk), key)
                   [] op = "section_iter"     -> SectionIter(SectionAt(h, sk))
                   [] op = "section_len"      -> SectionLen(SectionAt(h, sk))))
    /\ UNCHANGED <<fs, tmp, hs, uuid, sv, px>>

DataReadOps == {"data_getitem", "data_contains", "data_iter", "data_len"}

SectionReadOps == {"section_getitem", "section_contains", "section_iter", "section_len"}

NextLookup ==
    \/ \E mode \in Modes : Open("A", "P", mode)
    \/ \E op \in DataReadOps, key \in {"s1", "s2"} : DataRead("A", op, key)
    \/ \E op \in SectionReadOps, key \in {"k1", "k2"} : SectionRead("A", "s1", op, key)
    \/ \E id \in FileIds : ReadFile("A", id)
    \/ \E id \in FileIds : OpenFile("A", id, "r")
    \/ AddSection("A", "s2", PyStr("t"), PyStr("d"))
    \/ DelItem("A", "s1", "k1")
    \/ AddFile("A", Src2, "img2", None)
    \/ Close("A")

SpecLookup == InitDoc /\ [][NextLookup]_vars

(* the flags are those of the mode the handle was opened in *)
FlagsOfMode ==
    \A h \in Handles :
        hs[h].state = "open" =>
            /\ hs[h].readable <=> hs[h].mode \in {"r", "r+"}
            /\ hs[h].writable <=> hs[h].mode \in {"w", "r+"}

(* the key the read last made names is there *)
KeyPresent ==
    CASE last.op \in {"read_file", "open_file"} -> DictHas(hs[last.h].info.files, last.a.id)
      [] last.op = "data_getitem"               -> HasSection(last.h, last.a.key)
      [] last.op = "section_getitem"            -> HasItem(last.h, last.a.sk, last.a.key)
      [] OTHER                                  -> TRUE

(* C19: readable holds exactly for the modes r and r+, writable exactly for *)
(* w and r+, as long as the handle lives; every read operation (read_file,  *)
(* open_file for reading, lookup, membership test, length, iteration of the *)
(* Document and of a Section) succeeds on a readable handle for a present   *)
(* key and raises UnsupportedOperation on a handle opened in mode w.        *)
C19_ReadsGatedByReadable ==
    /\ FlagsOfMode
    /\ (/\ last.op \in DataReadOps \cup SectionReadOps \cup {"read_file", "open_file"}
        /\ InSession(last.h))
          => IF hs[last.h].readable
             THEN KeyPresent => last.exc = "none"
             ELSE last.exc = "UnsupportedOperation"


-----------------------------------------------------------------------------
(* remove_item on writable handles (SpecDoc) *)

(* the handles after the item under name left the Section sk of handle h:   *)
(* every other item, its fields and the order of the items are kept         *)
WithoutItem(h, sk, name) ==
    PutSection(h, sk, [SectionAt(h, sk) EXCEPT !.content = DictDel(@, name)])

(* C20: on every writable handle, in mode w as in mode r+,                  *)
(* remove_item(name) of a present name removes that item and nothing else;  *)
(* of an absent name it raises ValueError and leaves the Section as it is.  *)
C20_RemoveItemOnWritable ==
    [][(last'.op = "remove_item" /\ hs[last'.h].writable)
       => IF HasItem(last'.h, last'.a.sk, last'.a.name)
          THEN last'.exc = "none" /\ hs' = WithoutItem(last'.h, last'.a.sk, last'.a.name)
          ELSE last'.exc = "ValueError" /\ hs' = hs]_vars


-----------------------------------------------------------------------------
(* Ownership Links of the Document of a handle (SpecDoc) *)

(* every Section of the Document of h and every Item of it is owned by h *)
OwnedBy(h) ==
    /\ hs[h].data.parent = h
    /\ \A i \in 1..Len(hs[h].data.sections) :
          LET sec == hs[h].data.sections[i][2]
          IN  /\ sec.parent = h
              /\ \A j \in 1..Len(sec.content) : sec.content[j][2].parent = h

(* C21: in every state of an open handle, after loading at open,            *)
(* add_section, add_item, direct insertion (accepted or rejected) and       *)
(* removal, every Section of its Document and every Item of every Section   *)
(* holds an Ownership Link equal to that handle.                            *)
C21_OwnershipInvariant ==
    \A h \in Handles : hs[h].state = "open" => OwnedBy(h)

(* a Section of B was refused by the Document of A, which holds two         *)
(* Sections and an Item of its own                                          *)
C21_Witness ==
    /\ last.op = "data_setitem" /\ last.h = "A" /\ last.a.owner = "B"
    /\ last.exc = "InvalidParent"
    /\ Len(hs["A"].data.sections) = 2
    /\ \E k \in {"k1", "k2"} : HasItem("A", "s1", k)


-----------------------------------------------------------------------------
(* Item metadata (SpecDoc) *)

(* the metadata of the Item under ik of Section s1 of the Document of h *)
MetaOf(h, ik) == ItemAt(h, "s1", ik).data

(* metadata that is absent or a map *)
MetaAbsentOrMap(d) == d = None \/ IsDict(d)

(* the map d with name removed, absent when name was its last key *)
MetaWithout(d, name) ==
    IF Len(DictDel(d.v, name)) = 0 THEN None ELSE PyDict(DictDel(d.v, name))

(* C22: on a writable handle, for an Item whose metadata is absent or a     *)
(* map: add_data(name, value) sets metadata[name] = value, creating the map *)
(* when metadata was absent; remove_data(name) for a present name deletes   *)
(* only that key and resets metadata to absent when it was the last key;    *)
(* remove_data on an Item whose metadata is absent, or for a name that is   *)
(* not present, raises ValueError and leaves the Item unchanged.            *)
C22_ItemMetadata ==
    [][\A h \in Handles, ik \in {"k1", "k2"} :
        (/\ last'.op \in {"add_data", "remove_data"}
         /\ last'.h = h /\ last'.a.ik = ik
         /\ hs[h].writable
         /\ MetaAbsentOrMap(MetaOf(h, ik)))
        => LET old  == MetaOf(h, ik)
               item == ItemAt(h, "s1", ik)
               name == last'.a.name
           IN  CASE last'.op = "add_data" ->
                      /\ last'.exc = "none"
                      /\ ItemAt(h, "s1", ik)' =
                            [item EXCEPT !.data =
                                PyDict(DictSet(IF old = None THEN <<>> ELSE old.v,
                                               name, last'.a.value))]
                 [] last'.op = "remove_data" /\ old # None /\ DictHas(old.v, name) ->
                      /\ last'.exc = "none"
                      /\ ItemAt(h, "s1", ik)' = [item EXCEPT !.data = MetaWithout(old, name)]
                 [] OTHER ->
                      /\ last'.exc = "ValueError"
                      /\ ItemAt(h, "s1", ik)' = item]_vars


-----------------------------------------------------------------------------
(* SpecSaveAs: one writable handle on P saves to P or to Q, Q given as text *)
(* or as a path object; Q is absent, a foreign file or an older container;  *)
(* any step of the write phase may fail with an I/O error.                  *)

FilesAtQ == {NoFile, RawFile(Bytes("B2")), Archive0}

InitSaveAs ==
    /\ fs \in {[p \in FsPaths |-> CASE p = "P" -> Archive0
                                    [] p = "Q" -> f
                                    [] OTHER   -> NoFile] : f \in FilesAtQ}
    /\ tmp = [r \in {} |-> EmptyDir]
    /\ hs = [h \in Handles |-> NoHandle]
    /\ uuid = 0
    /\ sv = IdleFrame
    /\ last = NoOp
    /\ px = NoPx
    /\ rt = NoTrail

SaveTargets == {None, PathObj("Q"), PyStr("Q")}

NextSaveAs ==
    \/ \E mode \in {"w", "r+"} : Open("A", "P", mode)
    \/ AddSection("A", "s2", PyStr("t"), PyStr("d"))
    \/ \E target \in SaveTargets : SaveBegin("A", target)
    \/ \E fault \in BOOLEAN : SaveCreate(fault)
    \/ \E fault \in BOOLEAN : SaveWriteData(fault)
    \/ \E fault \in BOOLEAN : SaveWriteInfo(fault)
    \/ \E fault \in BOOLEAN : SaveWriteFile(fault)
    \/ \E fault \in BOOLEAN : SaveRemoveOld(fault)
    \/ SaveReturn
    \/ SaveExcept
    \/ SaveRaise

SpecSaveAs == InitSaveAs /\ [][NextSaveAs]_vars

(* the step belongs to a save of handle h to a path other than its own *)
SaveAsStep(h) ==
    /\ last'.op = "save" /\ last'.h = h
    /\ hs[h].writable
    /\ last'.a.path # hs[h].path

(* C23: save(Q) on a writable handle whose own path P differs from Q, Q     *)
(* given as text or as a path object: no step of it changes the file at P   *)
(* or P.old, or the handle's path; it raises only on an I/O failure of its  *)
(* write phase, and then Q is the file it was before the save; when it      *)
(* returns, Q is a valid container that loads as the handle's state and     *)
(* no Q.old is left.                                                        *)
C23_SaveAs ==
    [][\A h \in Handles :
        SaveAsStep(h)
        => /\ fs'[hs[h].path] = fs[hs[h].path]
           /\ fs'[OldOf(hs[h].path)] = fs[OldOf(hs[h].path)]
           /\ hs'[h].path = hs[h].path
           /\ last'.exc \in {"pending", "none"} \/ last'.fault # "none"
           /\ last'.exc = "none"
                 => (SavedContainerValid /\ SavedResourcesPresent /\ SavedStateLoads)'
           /\ last'.exc \notin {"pending", "none"}
                 => /\ fs'[last'.a.path] = last'.pre
                    /\ fs'[OldOf(last'.a.path)] = NoFile]_vars


-----------------------------------------------------------------------------
(* Staging after an open that failed (SpecOpen) *)

(* the step is an open of the valid container at p in a writable mode that  *)
(* raised, that is, raised after validation                                 *)
OpenFailedLate(p) ==
    /\ last'.op = "open" /\ last'.a.path = p
    /\ Writable(last'.a.mode)
    /\ Exists(p) /\ CheckValidity(p) = Ok(None)
    /\ last'.exc # "none"

(* C24: when opening an existing container in a writable mode fails after   *)
(* validation (VersionError or InvalidFile while loading the Document or    *)
(* the Resource Index, or a failure while extracting), no staging directory *)
(* created by that open exists once the error has been raised.              *)
C24_FailedOpenLeavesNoStaging ==
    [][\A p \in FsPaths : OpenFailedLate(p) => DOMAIN tmp' \subseteq DOMAIN tmp]_vars


-----------------------------------------------------------------------------
(* SpecClosed: a writable handle on P is used on after its close.  P holds  *)
(* a container without resources or the one with the resource "img1".       *)

InfoPlain == [parent |-> "", name |-> InfoDefaultName, files |-> InfoDefaultFiles]

(* a container with a Document and no resource *)
ArchivePlain ==
    ZipFinalize(ZipAppend(ZipAppend(NewZip,
        <<"data">>, DataExport(Data0)),
        <<"info">>, InfoExport(InfoPlain)))

InitClosed ==
    /\ fs \in {[p \in FsPaths |-> IF p = "P" THEN f ELSE NoFile] : f \in {ArchivePlain, Archive0}}
    /\ tmp = [r \in {} |-> EmptyDir]
    /\ hs = [h \in Handles |-> NoHandle]
    /\ uuid = 0
    /\ sv = IdleFrame
    /\ last = NoOp
    /\ px = NoPx
    /\ rt = NoTrail

NextClosed ==
    \/ \E mode \in {"w", "r+"} : Open("A", "P", mode)
    \/ AddSection("A", "s2", PyStr("t"), PyStr("d"))
    \/ Close("A")
    \/ AddFile("A", Src2, "img2", None)
    \/ WriteFile("A", "img1", Bytes("B3"))
    \/ ReadFile("A", "img1")
    \/ SaveBegin("A", None)
    \/ SaveCreate(FALSE)
    \/ SaveWriteData(FALSE)
    \/ SaveWriteInfo(FALSE)
    \/ SaveWriteFile(FALSE)
    \/ SaveRemoveOld(FALSE)
    \/ SaveReturn
    \/ SaveExcept
    \/ SaveRaise

SpecClosed == InitClosed /\ [][NextClosed]_vars

AfterCloseOps == {"save", "add_file", "write_file", "read_file", "close"}

(* the step completes an operation through the writable handle h, which was *)
(* closed before the step                                                   *)
UsedAfterClose(h) ==
    /\ last'.h = h /\ last'.op \in AfterCloseOps /\ last'.exc # "pending"
    /\ hs[h].writable /\ hs[h].closed

(* C25: after close on a writable handle, an operation through that handle  *)
(* (save, add_file, write_file, read_file, a second close) leaves the       *)
(* staging area as it was and the files on disk as they were before the     *)
(* operation; a save after close leaves at its target the file that was     *)
(* there before it, and no ".old" file.                                     *)
C25_CloseEndsLifecycle ==
    [][\A h \in Handles :
        UsedAfterClose(h)
        => /\ tmp' = tmp
           /\ IF last'.op = "save"
              THEN /\ fs'[last'.a.path] = last'.pre
                   /\ fs'[OldOf(last'.a.path)] = NoFile
              ELSE fs' = fs]_vars

====
